---- MODULE Spec2Model ----
(***************************************************************************)
(* The valve-detection front end.  Job page: the SWR-driven job-status     *)
(* poller (useJobStatus) with its error retries, the cancel handler        *)
(* (handleCancelJob), the backend job they talk to, the page's views and   *)
(* the stage mapping rendered by the ProcessingStages component.           *)
(* DownloadsSection: what it offers for a job, and the valve-size report.  *)
(* Home page: UploadSection's file check and upload.                       *)
(***************************************************************************)
EXTENDS Integers, Sequences, FiniteSets, TLC

(* ---------------------------------------------------------------------- *)
(* Bounds                                                                  *)
(* ---------------------------------------------------------------------- *)

\* number of GET /jobs/{id} requests that may be on the wire at once
MaxGets == 2

\* number of clicks on the error view's Retry button that are followed
MaxRetryClicks == 1

\* longest stage list calculateOverallProgress is applied to in CalcSpec
MaxStages == 4

\* longest result.valve_sizes list of a job handed to <DownloadsSection>
MaxValves == 2

\* number of POST /detect-valves requests that may be on the wire at once
MaxUploads == 2
MaxOps == 4
MaxDocs == 2
MaxPages == 2

(* ---------------------------------------------------------------------- *)
(* Program constants                                                       *)
(* ---------------------------------------------------------------------- *)

interval == 2000
errorRetryCount == 3
errorRetryInterval == 5000

\* enum JobStatus
JobStatus ==
  {"pending", "processing", "pdf_processed", "counting", "completed", "failed", "cancelled"}

\* the cached job before any response has been applied (data === undefined)
NoJob == [status |-> "undefined"]

\* no error / null message
NoError == << >>
NoMessage == << >>

\* responses to GET /jobs/{id} that are not ok, status and statusText spelled
\* in characters: 404 Not Found, 500 Internal Server Error, and a 504 whose
\* status text is empty, as it is over HTTP/2
NonOkResponses ==
  { [status |-> <<"4", "0", "4">>, statusText |-> <<"N", "o", "t", " ", "F", "o", "u", "n", "d">>],
    [status |-> <<"5", "0", "0">>,
     statusText |-> <<"I", "n", "t", "e", "r", "n", "a", "l", " ", "S", "e", "r", "v", "e", "r", " ", "E", "r", "r", "o", "r">>],
    [status |-> <<"5", "0", "4">>, statusText |-> << >>] }

\* the message when the status is left out of it
fetcherMessageTextOnly(res) == res.statusText

\* fetcher: new Error(`HTTP ${res.status}: ${res.statusText}`).message
fetcherMessage(res) == <<"H", "T", "T", "P", " ">> \o res.status \o <<":", " ">> \o res.statusText

\* errors a status fetch can end with, thrown by fetcher for a response that is not ok
FetchErrors == {fetcherMessage(res) : res \in NonOkResponses}

\* `jobId ? url : null`: null and '' both give the null key
NoJobId == ""
JobIds == {"job-1"}

\* values of Math.random() in onErrorRetry, in thousandths
Randoms == {0, 500, 999}

\* positions in the sequence of requests on the wire
Slots == 1..MaxGets

\* bodies a non-OK cancel response carries: with or without a detail message
Details == {NoMessage, <<"Job cannot be cancelled">>}
StatusTexts == {"Bad Request", "Internal Server Error"}

\* st: "none" (nothing on the wire) | "sent" | "ok" (200 on its way) | "nonok"
NoPost == [st |-> "none", detail |-> NoMessage, statusText |-> ""]

\* a field a response leaves out; an optional object or array is None or Some(x)
undefined == "undefined"
None == << >>
Some(x) == <<x>>

\* interface JobResult with the fields the page and its components read
JobsOf(statuses, urls, results, errors, times) ==
  [job_id : JobIds, status : statuses, detected_pdf_url : urls, result : results,
   error : errors, completed_at : times]

\* result.valve_counts of a response that carries it
someCounts == Some([total_detections |-> 3])

\* bodies of the 200 responses the cache is fed with
Bodies ==
  JobsOf({"processing", "completed", "failed"},
         {undefined, "/files/detected.pdf"},
         {None, Some([valve_counts |-> someCounts, valve_sizes |-> Some(<< >>)])},
         {undefined, "Detection failed"},
         {undefined, "2025-01-01T00:00:00"})

\* entries of result.valve_sizes: the size carries a double quote, a name a comma
ValveEntries ==
  { [size_inches |-> "2\"", valve_name |-> "Gate", count |-> 3],
    [size_inches |-> "1/2\"", valve_name |-> "Ball, flanged", count |-> 120],
    [size_inches |-> "", valve_name |-> "Check", count |-> 0] }

ValveLists == UNION {[1..n -> ValveEntries] : n \in 0..MaxValves}

\* result payloads: valve_counts and valve_sizes each present or left out
DownloadResults ==
  {None} \cup
  {Some(r) : r \in [valve_counts : {None, someCounts},
                    valve_sizes : {None} \cup {Some(l) : l \in ValveLists}]}

\* the jobs <DownloadsSection> is rendered with
DownloadJobs ==
  JobsOf(JobStatus, {undefined, "", "/files/detected.pdf"}, DownloadResults,
         {undefined}, {undefined})

\* File.type of the files picked or dropped, in characters: application/pdf,
\* application/x-pdf, image/png, and the empty type of a file the browser
\* does not know
FileTypes ==
  { <<"a", "p", "p", "l", "i", "c", "a", "t", "i", "o", "n", "/", "p", "d", "f">>,
    <<"a", "p", "p", "l", "i", "c", "a", "t", "i", "o", "n", "/", "x", "-", "p", "d", "f">>,
    <<"i", "m", "a", "g", "e", "/", "p", "n", "g">>,
    << >> }

\* job ids POST /detect-valves answers with
UploadJobIds == {"job-1", "job-2"}

\* <DownloadsSection> not rendered
NoDownloads == [pdfButton |-> FALSE, pdfToggle |-> FALSE, reportButton |-> "none"]

VARIABLES
  session,        \* useSession().status: "loading" | "unauthenticated" | "authenticated"
  backend,        \* status of the job held by the backend
  job,            \* SWR cache: data
  error,          \* SWR cache: error
  isLoading,      \* SWR cache: isLoading
  gets,           \* GET /jobs/{id} requests on the wire, oldest first: st is "sent" or,
                  \* once served, the status in the response; rc is opts.retryCount
  fetchCur,       \* FETCH[key]: position of the request in flight that SWR holds as current, 0 if none
  fetchRecent,    \* FETCH[key] still holds a request completed within dedupingInterval
  pollTimer,      \* delay the polling timeout is armed with, 0 when no timeout is pending
  pollWait,       \* position of the request the polling timer's revalidate awaits, 0 if none
  retryTimers,    \* retry counts of the pending error-retry timeouts
  isCancelling,   \* useState(false)
  cancelError,    \* useState<string | null>(null), a message as a sequence of parts
  cancelPc,       \* position of handleCancelJob: "idle" | "posting" | "refetching"
  post,           \* POST /jobs/{id}/cancel on the wire and, once served, its response
  retryClicks,    \* clicks on the Retry button so far
  cancelWait,     \* position of the re-fetch awaited by handleCancelJob, 0 if none
  stages,         \* stage list rendered by <ProcessingStages>, << >> when not rendered
  overallProgress,\* progress rendered by <ProcessingStages>, -1 when not rendered
  called,         \* the page handler the last step invoked: "handleCancelJob" | "refetch" | "none"
  jobId,          \* the jobId useJobStatus is called with, NoJobId when null or empty
  scheduled,      \* delay of the error-retry timeout the last step scheduled, 0 if it scheduled none
  body,           \* body of the status response applied last, NoJob before the first
  downloads,      \* what <DownloadsSection> renders
  csvContent,     \* text of the CSV file downloadValveSizeReport produced last, << >> if none
  uploadError,    \* UploadSection: useState<string | null>(null), a message as a sequence of parts
  isUploading,    \* UploadSection: useState(false)
  isDragOver,     \* UploadSection: useState(false)
  uploads,        \* POST /detect-valves requests on the wire, oldest first: st is "sent",
                  \* "ok" (200 on its way, with job_id) or "nonok" (with statusText)
  pushed,         \* the jobs onUploadSuccess was called with: router.push(`/${job_id}`) each
  file,           \* the file the upload handler called last was given, None before
  variant,        \* which copy of the job page is mounted: "part_006", the current one,
                  \* "part_005" (app/jobs/[slug]/page.tsx as first written) or "page.tsx"
  showDetectedPdf, \* useState(false) of the job page
  autoShowDue,    \* TRUE when a render changed [job, showDetectedPdf] and the
                  \* auto-show effect has not run yet
  pdfState,       \* useState<PDFState> of the canvas viewer (part_003)
  pdfMetadata,    \* useState<PDFMetadata> of the canvas viewer
  canvas,         \* what the viewer's canvas shows
  pending,        \* the viewer's loads in flight, timeouts set and renders under way,
                  \* each with the values its closure captured
  ops             \* number of user operations on the viewer so far

\* state of the components other than the job page's poller and cancel handler
\* state added for the earlier copies of the job page and for the PDF toggle
canvasVars == <<pdfState, pdfMetadata, canvas, pending, ops>>

moreVars == <<variant, showDetectedPdf, autoShowDue, canvasVars>>

sectionVars ==
  <<body, downloads, csvContent, uploadError, isUploading, isDragOver, uploads, pushed, file>>

otherVars == <<sectionVars, moreVars>>

\* state of the job page
pageVars == <<session, backend, job, error, isLoading, gets, fetchCur, fetchRecent,
              pollTimer, pollWait, retryTimers, isCancelling, cancelError, cancelPc,
              post, cancelWait, retryClicks, stages, overallProgress, called, jobId,
              scheduled>>

vars == <<pageVars, otherVars>>

(* ---------------------------------------------------------------------- *)
(* Pure functions                                                          *)
(* ---------------------------------------------------------------------- *)

RECURSIVE pow2(_)
\* 1 << n
pow2(n) == IF n = 0 THEN 1 ELSE 2 * pow2(n - 1)

\* a retry after errorRetryInterval whatever the retry count
errorRetryTimeoutFixed(retryCount, random) == errorRetryInterval

\* SWR's default onErrorRetry, which the options leave in place:
\*   ~~((Math.random() + 0.5) * (1 << (retryCount < 8 ? retryCount : 8)))
\*     * config.errorRetryInterval
errorRetryTimeout(retryCount, random) ==
  (((random + 500) * pow2(IF retryCount < 8 THEN retryCount ELSE 8)) \div 1000)
    * errorRetryInterval

\* a key that is built whatever the id
swrKeyAlways(id) == <<"/jobs/", id>>

\* first argument of useSWR: jobId ? `${API_BASE_URL}/jobs/${jobId}` : null
swrKey(id) == IF id # NoJobId THEN <<"/jobs/", id>> ELSE None

\* refreshInterval that leaves "cancelled" out of the statuses that stop polling
refreshIntervalNoCancelled(data) ==
  IF data.status = "completed" \/ data.status = "failed"
  THEN 0
  ELSE interval

\* refreshInterval that also stops polling once the job is counting
refreshIntervalStopsOnCounting(data) ==
  IF data.status = "counting" \/ data.status = "completed" \/ data.status = "failed"
     \/ data.status = "cancelled"
  THEN 0
  ELSE interval

\* refreshInterval option of useSWR
refreshInterval(data) ==
  IF data.status = "completed" \/ data.status = "failed" \/ data.status = "cancelled"
  THEN 0
  ELSE interval

\* isJobCancellable whose list also holds COMPLETED
isJobCancellableCompleted(j) ==
  IF j = NoJob THEN FALSE
  ELSE j.status \in {"pending", "processing", "pdf_processed", "counting", "completed"}

\* const isJobCancellable
isJobCancellable(j) ==
  IF j = NoJob THEN FALSE
  ELSE j.status \in {"pending", "processing", "pdf_processed", "counting"}

\* the stages array with the upload stage not yet done
initialStagesUploadPending ==
  << [id |-> "upload",     status |-> "pending",   progress |-> 0],
     [id |-> "processing", status |-> "pending",   progress |-> 0],
     [id |-> "detection",  status |-> "pending",   progress |-> 0],
     [id |-> "counting",   status |-> "pending",   progress |-> 0] >>

\* the stages array getProcessingStages starts from
initialStages ==
  << [id |-> "upload",     status |-> "completed", progress |-> 100],
     [id |-> "processing", status |-> "pending",   progress |-> 0],
     [id |-> "detection",  status |-> "pending",   progress |-> 0],
     [id |-> "counting",   status |-> "pending",   progress |-> 0] >>

\* the two assignments with the one to progress forgotten
setStageStatusOnly(s, i, st, pr) == [s EXCEPT ![i] = [@ EXCEPT !.status = st]]

\* stages[i].status = st; stages[i].progress = pr
setStage(s, i, st, pr) == [s EXCEPT ![i] = [@ EXCEPT !.status = st, !.progress = pr]]

\* body of the forEach in case JobStatus.CANCELLED
cancelStage(stage) ==
  IF stage.status = "active" THEN [stage EXCEPT !.status = "cancelled"]
  ELSE IF stage.status = "pending" THEN [stage EXCEPT !.status = "cancelled", !.progress = 0]
  ELSE stage

\* components/ProcessingStages.tsx (TLA+ sequences are 1-based: stages[1] of the
\* source is index 2 here)
getProcessingStages(currentStatus) ==
  LET s == initialStages IN
  CASE currentStatus = "pending"       -> setStage(s, 2, "active", 25)
    [] currentStatus = "processing"    -> setStage(s, 2, "active", 75)
    [] currentStatus = "pdf_processed" -> setStage(setStage(s, 2, "completed", 100), 3, "active", 50)
    [] currentStatus = "counting"      ->
         setStage(setStage(setStage(s, 2, "completed", 100), 3, "completed", 100), 4, "active", 75)
    [] currentStatus = "completed"     ->
         [i \in 1..Len(s) |-> [s[i] EXCEPT !.status = "completed", !.progress = 100]]
    [] currentStatus = "failed"        -> [s EXCEPT ![2] = [@ EXCEPT !.status = "error"]]
    [] currentStatus = "cancelled"     ->
         [i \in 1..Len(s) |-> IF i = 1 THEN s[i] ELSE cancelStage(s[i])]
    [] OTHER                           -> s

\* app/jobs/[slug]/page.tsx keeps its own copy of getProcessingStages, written
\* before the cancelled status existed
getProcessingStages_part005(currentStatus) ==
  LET s == initialStages IN
  CASE currentStatus = "pending"       -> setStage(s, 2, "active", 25)
    [] currentStatus = "processing"    -> setStage(s, 2, "active", 75)
    [] currentStatus = "pdf_processed" -> setStage(setStage(s, 2, "completed", 100), 3, "active", 50)
    [] currentStatus = "counting"      ->
         setStage(setStage(setStage(s, 2, "completed", 100), 3, "completed", 100), 4, "active", 75)
    [] currentStatus = "completed"     ->
         [i \in 1..Len(s) |-> [s[i] EXCEPT !.status = "completed", !.progress = 100]]
    [] currentStatus = "failed"        -> [s EXCEPT ![2] = [@ EXCEPT !.status = "error"]]
    [] OTHER                           -> s

\* app/jobs/[slug]/page.tsx as first written: refreshInterval of its useJobStatus
refreshInterval_part005(data) ==
  IF data.status = "completed" \/ data.status = "failed"
  THEN 0
  ELSE interval

\* app/page.tsx: refreshInterval: interval
refreshInterval_page(data) == interval

\* the stages array of app/page.tsx: three stages, no progress
initialStages_page ==
  << [id |-> "upload",    status |-> "completed"],
     [id |-> "detection", status |-> "pending"],
     [id |-> "counting",  status |-> "pending"] >>

\* getProcessingStages of app/page.tsx
getProcessingStages_page(currentStatus) ==
  LET s == initialStages_page IN
  CASE currentStatus \in {"pending", "processing"} -> [s EXCEPT ![2].status = "active"]
    [] currentStatus \in {"pdf_processed", "counting"} ->
         [s EXCEPT ![2].status = "completed", ![3].status = "active"]
    [] currentStatus = "completed" ->
         [s EXCEPT ![2].status = "completed", ![3].status = "completed"]
    [] currentStatus = "failed" -> [s EXCEPT ![2].status = "error"]
    [] OTHER -> s

RECURSIVE sumProgress(_)
sumProgress(s) == IF s = << >> THEN 0 ELSE Head(s).progress + sumProgress(Tail(s))

\* Math.floor in place of Math.round
floorDiv(x, n) == x \div n

\* Math.round(x / n) for x >= 0, n > 0: floor(x / n + 1/2)
roundDiv(x, n) == (2 * x + n) \div (2 * n)

calculateOverallProgress(s) == roundDiv(sumProgress(s), Len(s))

\* stands for the number NaN
NaN == -2

\* calculateOverallProgress of the first-written job page, which is handed []
\* while no job is cached: reduce gives 0, 0 / 0 is NaN, Math.round(NaN) is NaN
calculateOverallProgress_part005(s) ==
  IF Len(s) = 0 THEN NaN ELSE roundDiv(sumProgress(s), Len(s))

\* a page that shows the cached job in preference to the error
ViewJobFirst(sess, loading, err, j) ==
  IF sess = "loading" THEN "session-loading"
  ELSE IF sess # "authenticated" THEN "auth"
  ELSE IF loading /\ j = NoJob THEN "loading"
  ELSE IF j # NoJob THEN "job"
  ELSE IF err # NoError THEN "error"
  ELSE "no-job"

\* which of the page's return statements renders
View(sess, loading, err, j) ==
  IF sess = "loading" THEN "session-loading"
  ELSE IF sess # "authenticated" THEN "auth"
  ELSE IF loading /\ j = NoJob THEN "loading"
  ELSE IF err # NoError THEN "error"
  ELSE IF j = NoJob THEN "no-job"
  ELSE "job"

\* !!value of an optional string
truthy(str) == str # undefined /\ str # ""

\* available whenever the url is there, whatever the status
isDetectedPdfAvailableAnyStatus(j) == truthy(j.detected_pdf_url)

\* const isDetectedPdfAvailable
isDetectedPdfAvailable(j) ==
  (j.status = "pdf_processed" \/ j.status = "counting" \/ j.status = "completed")
  /\ truthy(j.detected_pdf_url)

\* available whenever the result has counts, whatever the status
areValveCountsAvailableAnyStatus(j) == j.result # None /\ j.result[1].valve_counts # None

\* const areValveCountsAvailable: status === COMPLETED && !!job.result?.valve_counts
areValveCountsAvailable(j) ==
  j.status = "completed" /\ j.result # None /\ j.result[1].valve_counts # None

digitChars == <<"0", "1", "2", "3", "4", "5", "6", "7", "8", "9">>

RECURSIVE toString(_)
\* Number.prototype.toString of a non-negative integer, in characters
toString(n) ==
  IF n < 10 THEN <<digitChars[n + 1]>>
  ELSE toString(n \div 10) \o <<digitChars[(n % 10) + 1]>>

RECURSIVE joinTrailing(_, _)
\* a join that puts the separator after every element
joinTrailing(parts, sep) ==
  IF parts = << >> THEN << >>
  ELSE Head(parts) \o <<sep>> \o joinTrailing(Tail(parts), sep)

RECURSIVE join(_, _)
\* Array.prototype.join: the elements' texts with the separator between them
join(parts, sep) ==
  IF parts = << >> THEN << >>
  ELSE IF Len(parts) = 1 THEN Head(parts)
  ELSE Head(parts) \o <<sep>> \o join(Tail(parts), sep)

\* csvContent of downloadValveSizeReport: a text is the sequence of its
\* pieces, each field one piece and the count in characters
downloadValveSizeReport(valveSizes) ==
  LET headers == << <<"size_inches">>, <<"valve_name">>, <<"count">> >>
      csvRows ==
        << join(headers, ",") >> \o
        [i \in 1..Len(valveSizes) |->
           join(<< <<valveSizes[i].size_inches>>, <<valveSizes[i].valve_name>>,
                   toString(valveSizes[i].count) >>, ",")]
  IN join(csvRows, "\n")

\* String.prototype.startsWith in place of includes
startsWith(str, search) ==
  Len(search) <= Len(str) /\ SubSeq(str, 1, Len(search)) = search

\* String.prototype.includes
includes(str, search) ==
  \E i \in 1..(Len(str) - Len(search) + 1) : SubSeq(str, i, i + Len(search) - 1) = search

\* text of the error view's <AlertDescription>: the template's literal
\* pieces, the job id, and the error's message in characters
errorViewMessage(err, id) ==
  IF includes(err, <<"4", "0", "4">>)
  THEN <<"Job with ID \"", id, "\" was not found. Please check the job ID and try again.">>
  ELSE <<"Failed to load job status: ">> \o err

\* the message without the response's status text
uploadMessageGeneric(statusText) == <<"Upload failed">>

\* uploadFile's Error message for a response that is not ok
uploadMessage(statusText) == <<"Upload failed: ", statusText>>

\* the message without the body's detail
cancelMessageStatusOnly(detail, statusText) == <<"Cancel failed: ", statusText>>

\* cancelJob's Error message for a non-OK response
cancelMessage(detail, statusText) ==
  IF detail # NoMessage THEN detail ELSE <<"Cancel failed: ", statusText>>

(* ---------------------------------------------------------------------- *)
(* Helpers of the actions                                                  *)
(* ---------------------------------------------------------------------- *)

\* the requests on the wire once the one at position s has settled
Settle(q, s) == [i \in 1..(Len(q) - 1) |-> IF i < s THEN q[i] ELSE q[i + 1]]

\* where the request at position p is once the one at position s has settled
After(p, s) == IF p = s THEN 0 ELSE IF p > s THEN p - 1 ELSE p

\* position a request started now takes
NewSlot == Len(gets) + 1

\* what the page renders from; a change of any of these re-renders the page
Rendered == <<session, job, error, isLoading, isCancelling, cancelError>>

\* <ProcessingStages currentStatus={job.status} /> is part of the job view only
Render ==
  /\ stages' = IF View(session', isLoading', error', job') = "job"
               THEN getProcessingStages(job'.status) ELSE << >>
  /\ overallProgress' = IF stages' = << >> THEN -1 ELSE calculateOverallProgress(stages')

\* SWR's polling effect.  next() arms a timeout of refreshInterval(cache data)
\* when that is not 0.  The effect depends on the refreshInterval option, a new
\* closure on every render, so each render drops the pending timeout (and the
\* continuation of the tick awaiting a response) and calls next() again.
\*   cmd = "next": the revalidate started by the last tick has finished
\*   cmd = "wait": the tick fired and awaits the request at position w
\*   cmd = "keep": the timer is not involved, a tick awaiting a request goes
\*                 on awaiting it, at position w
Timer(cmd, w) ==
  IF Rendered' # Rendered \/ cmd = "next"
  THEN pollTimer' = refreshInterval(job') /\ pollWait' = 0
  ELSE IF cmd = "wait"
  THEN pollTimer' = 0 /\ pollWait' = w
  ELSE pollTimer' = pollTimer /\ pollWait' = w

\* revalidate() starting a new request: FETCH[key] = [fetcher(url), timestamp]
StartGet(rc) ==
  /\ Len(gets) < MaxGets
  /\ gets' = Append(gets, [st |-> "sent", rc |-> rc])
  /\ fetchCur' = NewSlot
  /\ fetchRecent' = FALSE
  /\ isLoading' = IF job = NoJob THEN TRUE ELSE isLoading

\* `await refetch()` in handleCancelJob resolves, then its finally block runs
CancelResume(s) ==
  IF cancelWait = s
  THEN isCancelling' = FALSE /\ cancelPc' = "idle" /\ cancelWait' = 0
  ELSE UNCHANGED <<isCancelling, cancelPc>> /\ cancelWait' = After(cancelWait, s)

(* ---------------------------------------------------------------------- *)
(* Initial state: the page has mounted, useSWR has issued its first        *)
(* request if its key is not null and has armed the polling timeout        *)
(* ---------------------------------------------------------------------- *)

\* the components outside the job page's poller and cancel handler, not mounted
\* the canvas before anything is drawn, and after loadPDF has cleared it
BlankCanvas == [doc |-> 0, page |-> 0, scale |-> 0]

\* initial useState values of the canvas viewer; currentZoomScale in hundredths
CanvasIdle ==
  /\ pdfState = [doc |-> 0, pageNum |-> 1, pageRendering |-> FALSE,
                 currentZoomScale |-> 50, pageRenderCache |-> {}]
  /\ pdfMetadata = [totalPages |-> 0, currentPage |-> 1]
  /\ canvas = BlankCanvas
  /\ pending = << >>
  /\ ops = 0

MoreIdle ==
  /\ variant = "part_006"
  /\ showDetectedPdf = FALSE
  /\ autoShowDue = FALSE
  /\ CanvasIdle

SectionsIdle ==
  /\ body = NoJob
  /\ downloads = NoDownloads
  /\ csvContent = << >>
  /\ uploadError = NoMessage
  /\ isUploading = FALSE
  /\ isDragOver = FALSE
  /\ uploads = << >>
  /\ pushed = << >>
  /\ file = None

OthersIdle == SectionsIdle /\ MoreIdle

\* useJobStatus called by a component that has just mounted
Mounted ==
  /\ session = "loading"
  /\ backend \in JobStatus
  /\ job = NoJob
  /\ error = NoError
  /\ isLoading = (swrKey(jobId) # None)
  /\ gets = IF swrKey(jobId) # None THEN << [st |-> "sent", rc |-> 0] >> ELSE << >>
  /\ fetchCur = IF swrKey(jobId) # None THEN 1 ELSE 0
  /\ fetchRecent = FALSE
  /\ pollTimer = refreshInterval(NoJob)
  /\ pollWait = 0
  /\ retryTimers = {}
  /\ isCancelling = FALSE
  /\ cancelError = NoMessage
  /\ cancelPc = "idle"
  /\ post = NoPost
  /\ cancelWait = 0
  /\ retryClicks = 0
  /\ stages = << >>
  /\ overallProgress = -1
  /\ called = "none"
  /\ scheduled = 0
  /\ OthersIdle

\* the job page: jobId is params.slug, the non-empty segment of the route
Init == jobId \in JobIds /\ Mounted

(* ---------------------------------------------------------------------- *)
(* Session and backend                                                     *)
(* ---------------------------------------------------------------------- *)

SessionResolve ==
  /\ session = "loading"
  /\ session' \in {"authenticated", "unauthenticated"}
  /\ UNCHANGED <<backend, job, error, isLoading, gets, fetchCur, fetchRecent, retryTimers,
                 isCancelling, cancelError, cancelPc, post, cancelWait, retryClicks>>
  /\ Timer("keep", pollWait)
  /\ Render
  /\ called' = "none"
  /\ scheduled' = 0
  /\ UNCHANGED <<jobId, otherVars>>

\* the backend's pipeline: pending -> processing -> pdf_processed -> counting -> completed
BackendAdvance ==
  /\ backend \in {"pending", "processing", "pdf_processed", "counting"}
  /\ backend' = CASE backend = "pending" -> "processing"
                  [] backend = "processing" -> "pdf_processed"
                  [] backend = "pdf_processed" -> "counting"
                  [] backend = "counting" -> "completed"
  /\ UNCHANGED <<session, job, error, isLoading, gets, fetchCur, fetchRecent, pollTimer,
                 pollWait, retryTimers, isCancelling, cancelError, cancelPc, post,
                 cancelWait, retryClicks, stages, overallProgress>>
  /\ called' = "none"
  /\ scheduled' = 0
  /\ UNCHANGED <<jobId, otherVars>>

BackendFail ==
  /\ backend \in {"pending", "processing", "pdf_processed", "counting"}
  /\ backend' = "failed"
  /\ UNCHANGED <<session, job, error, isLoading, gets, fetchCur, fetchRecent, pollTimer,
                 pollWait, retryTimers, isCancelling, cancelError, cancelPc, post,
                 cancelWait, retryClicks, stages, overallProgress>>
  /\ called' = "none"
  /\ scheduled' = 0
  /\ UNCHANGED <<jobId, otherVars>>

\* the backend answers GET /jobs/{id} with the job as it is at that moment
ServeGet(s) ==
  /\ s <= Len(gets)
  /\ gets[s].st = "sent"
  /\ gets' = [gets EXCEPT ![s].st = backend]
  /\ UNCHANGED <<session, backend, job, error, isLoading, fetchCur, fetchRecent, pollTimer,
                 pollWait, retryTimers, isCancelling, cancelError, cancelPc, post,
                 cancelWait, retryClicks, stages, overallProgress>>
  /\ called' = "none"
  /\ scheduled' = 0
  /\ UNCHANGED <<jobId, otherVars>>

(* ---------------------------------------------------------------------- *)
(* useJobStatus: SWR revalidation, polling, error retry                    *)
(* ---------------------------------------------------------------------- *)

\* the polling timeout fires: execute() of SWR's polling effect.  With an error
\* in the cache it only re-arms, and with a null key revalidate() returns at
\* once; otherwise it revalidates with dedupe, joining the request FETCH[key]
\* holds or starting a new one.
PollTick ==
  /\ pollTimer # 0
  /\ UNCHANGED <<session, backend, job, retryTimers, isCancelling, cancelError, cancelPc,
                 post, cancelWait, retryClicks>>
  /\ IF error # NoError \/ swrKey(jobId) = None
     THEN /\ UNCHANGED <<gets, fetchCur, fetchRecent, isLoading, error>>
          /\ Timer("next", 0)
     ELSE IF fetchCur # 0
     THEN /\ isLoading' = IF job = NoJob THEN TRUE ELSE isLoading
          /\ UNCHANGED <<gets, fetchCur, fetchRecent, error>>
          /\ Timer("wait", fetchCur)
     ELSE IF fetchRecent
     THEN /\ UNCHANGED <<gets, fetchCur, fetchRecent, isLoading, error>>
          /\ Timer("next", 0)
     ELSE /\ StartGet(0)
          /\ UNCHANGED error
          /\ Timer("wait", NewSlot)
  /\ Render
  /\ called' = "none"
  /\ scheduled' = 0
  /\ UNCHANGED <<jobId, otherVars>>

\* an error-retry timeout fires: revalidate({ retryCount: n, dedupe: true })
ErrorRetry(n) ==
  /\ n \in retryTimers
  /\ retryTimers' = retryTimers \ {n}
  /\ IF fetchCur # 0
     THEN /\ isLoading' = IF job = NoJob THEN TRUE ELSE isLoading
          /\ UNCHANGED <<gets, fetchCur, fetchRecent, error>>
     ELSE IF fetchRecent
     THEN /\ error' = NoError
          /\ isLoading' = FALSE
          /\ UNCHANGED <<gets, fetchCur, fetchRecent>>
     ELSE /\ StartGet(n)
          /\ UNCHANGED error
  /\ UNCHANGED <<session, backend, job, isCancelling, cancelError, cancelPc, post,
                 cancelWait, retryClicks>>
  /\ Timer("keep", pollWait)
  /\ Render
  /\ called' = "none"
  /\ scheduled' = 0
  /\ UNCHANGED <<jobId, otherVars>>

\* the Retry button of the error view: onClick={() => refetch()}, SWR's bound
\* mutate(), which drops FETCH[key] and revalidates without dedupe
RetryClick ==
  /\ View(session, isLoading, error, job) = "error"
  /\ retryClicks < MaxRetryClicks
  /\ retryClicks' = retryClicks + 1
  /\ StartGet(0)
  /\ UNCHANGED <<session, backend, job, error, retryTimers, isCancelling, cancelError,
                 cancelPc, post, cancelWait>>
  /\ Timer("keep", pollWait)
  /\ Render
  /\ called' = "refetch"
  /\ scheduled' = 0
  /\ UNCHANGED <<jobId, otherVars>>

\* no check that the request is still the current one
isCurrentAlways(s) == TRUE

\* a 200 response arrives.  SWR applies it only when the request is still the
\* one FETCH[key] holds; the response of a superseded request is discarded.
isCurrent(s) == s = fetchCur

DeliverGetOk(s) ==
  /\ s <= Len(gets)
  /\ gets[s].st \in JobStatus
  /\ IF isCurrent(s)
     THEN /\ job' = [status |-> gets[s].st]
          /\ error' = NoError
          /\ isLoading' = FALSE
          /\ fetchRecent' = (s = fetchCur)
     ELSE UNCHANGED <<job, error, isLoading, fetchRecent>>
  /\ fetchCur' = After(fetchCur, s)
  /\ gets' = Settle(gets, s)
  /\ CancelResume(s)
  /\ UNCHANGED <<session, backend, retryTimers, cancelError, post, retryClicks>>
  /\ Timer(IF pollWait = s THEN "next" ELSE "keep", After(pollWait, s))
  /\ Render
  /\ called' = "none"
  /\ scheduled' = 0
  /\ UNCHANGED <<jobId, otherVars>>

\* the request fails (fetcher throws on !res.ok): the
\* error goes to the cache, the cached data stays, and onErrorRetry schedules a
\* retry, after a timeout that backs off, unless the request's retry count has
\* reached errorRetryCount
DeliverGetFail(s, e) ==
  /\ s <= Len(gets)
  /\ error' = e
  /\ isLoading' = FALSE
  /\ fetchCur' = After(fetchCur, s)
  /\ retryTimers' = IF gets[s].rc + 1 <= errorRetryCount
                    THEN retryTimers \cup {gets[s].rc + 1} ELSE retryTimers
  /\ gets' = Settle(gets, s)
  /\ CancelResume(s)
  /\ UNCHANGED <<session, backend, job, fetchRecent, cancelError, post, retryClicks>>
  /\ Timer(IF pollWait = s THEN "next" ELSE "keep", After(pollWait, s))
  /\ Render
  /\ called' = "none"
  /\ \E random \in Randoms :
       scheduled' = IF gets[s].rc + 1 <= errorRetryCount
                    THEN errorRetryTimeout(gets[s].rc + 1, random) ELSE 0
  /\ UNCHANGED <<jobId, otherVars>>

\* dedupingInterval after a request completed, cleanupState drops FETCH[key]
DedupeExpire ==
  /\ fetchRecent
  /\ fetchRecent' = FALSE
  /\ UNCHANGED <<session, backend, job, error, isLoading, gets, fetchCur, pollTimer,
                 pollWait, retryTimers, isCancelling, cancelError, cancelPc, post,
                 cancelWait, retryClicks, stages, overallProgress>>
  /\ called' = "none"
  /\ scheduled' = 0
  /\ UNCHANGED <<jobId, otherVars>>

(* ---------------------------------------------------------------------- *)
(* handleCancelJob and cancelJob                                           *)
(* ---------------------------------------------------------------------- *)

\* handleCancelJob without its setCancelError(null)
HandleCancelJobNoReset ==
  /\ session = "authenticated"
  /\ IF job = NoJob \/ ~isJobCancellable(job)
     THEN UNCHANGED <<isCancelling, cancelPc, post>>
     ELSE /\ View(session, isLoading, error, job) = "job"
          /\ ~isCancelling
          /\ isCancelling' = TRUE
          /\ cancelPc' = "posting"
          /\ post' = [NoPost EXCEPT !.st = "sent"]
  /\ UNCHANGED <<session, backend, job, error, isLoading, gets, fetchCur, fetchRecent,
                 retryTimers, cancelError, cancelWait, retryClicks>>
  /\ Timer("keep", pollWait)
  /\ Render
  /\ called' = "handleCancelJob"
  /\ scheduled' = 0
  /\ UNCHANGED <<jobId, otherVars>>

\* handleCancelJob behind a button that is not disabled while isCancelling
HandleCancelJobUngated ==
  /\ session = "authenticated"
  /\ IF job = NoJob \/ ~isJobCancellable(job)
     THEN UNCHANGED <<isCancelling, cancelError, cancelPc, post>>
     ELSE /\ View(session, isLoading, error, job) = "job"
          /\ isCancelling' = TRUE
          /\ cancelError' = NoMessage
          /\ cancelPc' = "posting"
          /\ post' = [NoPost EXCEPT !.st = "sent"]
  /\ UNCHANGED <<session, backend, job, error, isLoading, gets, fetchCur, fetchRecent,
                 retryTimers, cancelWait, retryClicks>>
  /\ Timer("keep", pollWait)
  /\ Render
  /\ called' = "handleCancelJob"
  /\ scheduled' = 0
  /\ UNCHANGED <<jobId, otherVars>>

\* handleCancelJob up to its first await.  The handler exists once the page is
\* past its session checks.  Its own guard returns when no job is cached or the
\* cached job is not cancellable; otherwise it runs from the Cancel Job button,
\* which is rendered in the job view and disabled while isCancelling.
HandleCancelJob ==
  /\ session = "authenticated"
  /\ IF job = NoJob \/ ~isJobCancellable(job)
     THEN UNCHANGED <<isCancelling, cancelError, cancelPc, post>>
     ELSE /\ View(session, isLoading, error, job) = "job"
          /\ ~isCancelling
          /\ isCancelling' = TRUE
          /\ cancelError' = NoMessage
          /\ cancelPc' = "posting"
          /\ post' = [NoPost EXCEPT !.st = "sent"]
  /\ UNCHANGED <<session, backend, job, error, isLoading, gets, fetchCur, fetchRecent,
                 retryTimers, cancelWait, retryClicks>>
  /\ Timer("keep", pollWait)
  /\ Render
  /\ called' = "handleCancelJob"
  /\ scheduled' = 0
  /\ UNCHANGED <<jobId, otherVars>>

\* the backend handles POST /jobs/{id}/cancel: it cancels a job that has not
\* reached a terminal status and answers 200, and answers non-OK otherwise
ServePost ==
  /\ post.st = "sent"
  /\ IF backend \in {"pending", "processing", "pdf_processed", "counting"}
     THEN /\ backend' = "cancelled"
          /\ post' = [st |-> "ok", detail |-> NoMessage, statusText |-> "OK"]
     ELSE /\ backend' = backend
          /\ \E d \in Details, t \in StatusTexts :
               post' = [st |-> "nonok", detail |-> d, statusText |-> t]
  /\ UNCHANGED <<session, job, error, isLoading, gets, fetchCur, fetchRecent, pollTimer,
                 pollWait, retryTimers, isCancelling, cancelError, cancelPc, cancelWait,
                 retryClicks, stages, overallProgress>>
  /\ called' = "none"
  /\ scheduled' = 0
  /\ UNCHANGED <<jobId, otherVars>>

\* handleCancelJob without its `await refetch()`
DeliverPostOkNoRefetch ==
  /\ post.st = "ok"
  /\ post' = NoPost
  /\ isCancelling' = FALSE
  /\ cancelPc' = "idle"
  /\ UNCHANGED <<session, backend, job, error, isLoading, gets, fetchCur, fetchRecent,
                 retryTimers, cancelError, cancelWait, retryClicks>>
  /\ Timer("keep", pollWait)
  /\ Render
  /\ called' = "none"
  /\ scheduled' = 0
  /\ UNCHANGED <<jobId, otherVars>>

\* cancelJob resolves; the handler goes on to `await refetch()`: SWR's bound
\* mutate(), which drops FETCH[key] and revalidates without dedupe
DeliverPostOk ==
  /\ post.st = "ok"
  /\ post' = NoPost
  /\ StartGet(0)
  /\ cancelPc' = "refetching"
  /\ cancelWait' = NewSlot
  /\ UNCHANGED <<session, backend, job, error, retryTimers, isCancelling, cancelError,
                 retryClicks>>
  /\ Timer("keep", pollWait)
  /\ Render
  /\ called' = "none"
  /\ scheduled' = 0
  /\ UNCHANGED <<jobId, otherVars>>

\* cancelJob throws for a non-OK response: the catch block sets cancelError,
\* the finally block resets isCancelling
DeliverPostNonOk ==
  /\ post.st = "nonok"
  /\ post' = NoPost
  /\ cancelError' = cancelMessage(post.detail, post.statusText)
  /\ isCancelling' = FALSE
  /\ cancelPc' = "idle"
  /\ UNCHANGED <<session, backend, job, error, isLoading, gets, fetchCur, fetchRecent,
                 retryTimers, cancelWait, retryClicks>>
  /\ Timer("keep", pollWait)
  /\ Render
  /\ called' = "none"
  /\ scheduled' = 0
  /\ UNCHANGED <<jobId, otherVars>>

\* fetch() itself rejects: the request, or the 200 response to it, was lost
DeliverPostNetworkError ==
  /\ post.st \in {"sent", "ok"}
  /\ post' = NoPost
  /\ cancelError' = <<"Failed to fetch">>
  /\ isCancelling' = FALSE
  /\ cancelPc' = "idle"
  /\ UNCHANGED <<session, backend, job, error, isLoading, gets, fetchCur, fetchRecent,
                 retryTimers, cancelWait, retryClicks>>
  /\ Timer("keep", pollWait)
  /\ Render
  /\ called' = "none"
  /\ scheduled' = 0
  /\ UNCHANGED <<jobId, otherVars>>

(* ---------------------------------------------------------------------- *)
(* Specification                                                           *)
(* ---------------------------------------------------------------------- *)

Next ==
  \/ SessionResolve
  \/ BackendAdvance
  \/ BackendFail
  \/ \E s \in Slots : ServeGet(s)
  \/ PollTick
  \/ \E n \in 1..errorRetryCount : ErrorRetry(n)
  \/ RetryClick
  \/ \E s \in Slots : DeliverGetOk(s)
  \/ \E s \in Slots, e \in FetchErrors : DeliverGetFail(s, e)
  \/ DedupeExpire
  \/ HandleCancelJob
  \/ ServePost
  \/ DeliverPostOk
  \/ DeliverPostNonOk
  \/ DeliverPostNetworkError

Spec == Init /\ [][Next]_vars

TypeOK ==
  /\ session \in {"loading", "unauthenticated", "authenticated"}
  /\ backend \in JobStatus
  /\ job \in [status : JobStatus \cup {"undefined"}]
  /\ error \in FetchErrors \cup {NoError}
  /\ isLoading \in BOOLEAN
  /\ gets \in Seq([st : {"sent"} \cup JobStatus, rc : 0..errorRetryCount])
  /\ Len(gets) <= MaxGets
  /\ fetchCur \in 0..MaxGets
  /\ fetchRecent \in BOOLEAN
  /\ pollTimer \in {0, interval}
  /\ pollWait \in 0..MaxGets
  /\ retryTimers \subseteq 1..errorRetryCount
  /\ isCancelling \in BOOLEAN
  /\ cancelPc \in {"idle", "posting", "refetching"}
  /\ post \in [st : {"none", "sent", "ok", "nonok"}, detail : Details,
               statusText : StatusTexts \cup {"", "OK"}]
  /\ cancelWait \in 0..MaxGets
  /\ retryClicks \in 0..MaxRetryClicks

(* ---------------------------------------------------------------------- *)
(* The page while the error view's Retry button is left alone: polling,    *)
(* fetch errors and their automatic retries, and the cancel handler.       *)
(* Without the button's mutate() the requests on the wire are the poll or  *)
(* retry request and the re-fetch after a cancel.                          *)
(* ---------------------------------------------------------------------- *)

PageNext ==
  \/ SessionResolve
  \/ BackendAdvance
  \/ BackendFail
  \/ \E s \in Slots : ServeGet(s)
  \/ PollTick
  \/ \E n \in 1..errorRetryCount : ErrorRetry(n)
  \/ \E s \in Slots : DeliverGetOk(s)
  \/ \E s \in Slots, e \in FetchErrors : DeliverGetFail(s, e)
  \/ DedupeExpire
  \/ HandleCancelJob
  \/ ServePost
  \/ DeliverPostOk
  \/ DeliverPostNonOk
  \/ DeliverPostNetworkError

PageSpec == Init /\ [][PageNext]_vars

\* the same hook mounted with any id: the legacy viewer page calls it with
\* currentJobId, which is null until an upload has returned a job
MountInit == jobId \in {NoJobId} \cup JobIds /\ Mounted

MountSpec == MountInit /\ [][PageNext]_vars

(* ---------------------------------------------------------------------- *)
(* The page's views while the Cancel Job button is left alone: polling,    *)
(* fetch errors, their automatic retries and the error view's Retry button *)
(* ---------------------------------------------------------------------- *)

RetryNext ==
  \/ SessionResolve
  \/ BackendAdvance
  \/ BackendFail
  \/ \E s \in Slots : ServeGet(s)
  \/ PollTick
  \/ \E n \in 1..errorRetryCount : ErrorRetry(n)
  \/ RetryClick
  \/ \E s \in Slots : DeliverGetOk(s)
  \/ \E s \in Slots, e \in FetchErrors : DeliverGetFail(s, e)
  \/ DedupeExpire

RetrySpec == Init /\ [][RetryNext]_vars

(* ---------------------------------------------------------------------- *)
(* Cancel/poll race under fair scheduling: the same page while every       *)
(* status fetch is answered with 200 (no fetch error, hence no error       *)
(* retry and no error view with its Retry button).  Timeouts fire, the     *)
(* backend answers, and responses (or the loss of a cancel response)       *)
(* arrive.                                                                 *)
(* ---------------------------------------------------------------------- *)

PostSettles == DeliverPostOk \/ DeliverPostNonOk \/ DeliverPostNetworkError

LiveNext ==
  \/ SessionResolve
  \/ BackendAdvance
  \/ BackendFail
  \/ \E s \in Slots : ServeGet(s)
  \/ PollTick
  \/ \E s \in Slots : DeliverGetOk(s)
  \/ DedupeExpire
  \/ HandleCancelJob
  \/ ServePost
  \/ DeliverPostOk
  \/ DeliverPostNonOk
  \/ DeliverPostNetworkError

LiveSpec ==
  /\ Init
  /\ [][LiveNext]_vars
  /\ WF_vars(PollTick)
  /\ WF_vars(DedupeExpire)
  /\ WF_vars(ServePost)
  /\ WF_vars(PostSettles)
  /\ \A s \in Slots : WF_vars(ServeGet(s)) /\ WF_vars(DeliverGetOk(s))

(* ---------------------------------------------------------------------- *)
(* calculateOverallProgress as a function: the stage list is drawn from    *)
(* the stage mappings and from arbitrary lists of progress values, and     *)
(* <ProcessingStages> computes the overall progress of it                  *)
(* ---------------------------------------------------------------------- *)

ProgressValues == {0, 25, 50, 75, 100}

StageLists ==
  UNION {[1..n -> [id : {"stage"}, status : {"active"}, progress : ProgressValues]] :
           n \in 1..MaxStages}

CalcInit ==
  /\ session = "authenticated"
  /\ backend = "pending"
  /\ \/ job \in [status : JobStatus] /\ stages = getProcessingStages(job.status)
     \/ job = NoJob /\ stages \in StageLists
  /\ error = NoError
  /\ isLoading = FALSE
  /\ gets = << >>
  /\ fetchCur = 0
  /\ fetchRecent = FALSE
  /\ pollTimer = 0
  /\ pollWait = 0
  /\ retryTimers = {}
  /\ isCancelling = FALSE
  /\ cancelError = NoMessage
  /\ cancelPc = "idle"
  /\ post = NoPost
  /\ cancelWait = 0
  /\ retryClicks = 0
  /\ overallProgress = -1
  /\ called = "none"
  /\ jobId \in JobIds
  /\ scheduled = 0
  /\ OthersIdle

\* const overallProgress = calculateOverallProgress(processingStages)
Calculate ==
  /\ overallProgress = -1
  /\ overallProgress' = calculateOverallProgress(stages)
  /\ UNCHANGED <<session, backend, job, error, isLoading, gets, fetchCur, fetchRecent,
                 pollTimer, pollWait, retryTimers, isCancelling, cancelError, cancelPc,
                 post, cancelWait, retryClicks, stages, called, jobId, scheduled, otherVars>>

CalcNext == Calculate

CalcSpec == CalcInit /\ [][CalcNext]_vars

(* ---------------------------------------------------------------------- *)
(* The SWR cache entry of the job with every field of the response: the    *)
(* poller and refetch() start requests, a 200 response of the current      *)
(* request is applied, one of a superseded request is dropped, a failure   *)
(* leaves the data alone                                                   *)
(* ---------------------------------------------------------------------- *)

\* the variables the cache actions leave alone
cacheRest ==
  <<session, backend, fetchRecent, pollTimer, pollWait, retryTimers, isCancelling,
    cancelError, cancelPc, post, cancelWait, retryClicks, stages, overallProgress,
    called, jobId, scheduled, downloads, csvContent, uploadError, isUploading,
    isDragOver, uploads, pushed, file, moreVars>>

\* a cache that spreads the response over the data it holds: a field the
\* response leaves out keeps its earlier value
applyResponseMerged(data, newData) ==
  IF data = NoJob THEN newData
  ELSE [f \in DOMAIN newData |->
          IF newData[f] = (IF f = "result" THEN None ELSE undefined)
          THEN data[f] ELSE newData[f]]

\* SWR: `finalState.data = newData` unless compare(cache data, newData), which
\* keeps the equal object it holds
applyResponse(data, newData) == IF data = newData THEN data ELSE newData

CacheInit == Init /\ backend = "pending"

\* a revalidation with dedupe (polling tick) while no request is in flight
CachePoll ==
  /\ fetchCur = 0
  /\ StartGet(0)
  /\ UNCHANGED <<job, body, error, cacheRest>>

\* refetch(): mutate() starts a request whatever is in flight
CacheMutate ==
  /\ StartGet(0)
  /\ UNCHANGED <<job, body, error, cacheRest>>

\* the 200 response to the request at position s arrives with body b
CacheDeliverOk(s, b) ==
  /\ s <= Len(gets)
  /\ IF isCurrent(s)
     THEN /\ job' = applyResponse(job, b)
          /\ body' = b
          /\ error' = NoError
          /\ isLoading' = FALSE
     ELSE UNCHANGED <<job, body, error, isLoading>>
  /\ fetchCur' = After(fetchCur, s)
  /\ gets' = Settle(gets, s)
  /\ UNCHANGED cacheRest

\* the request at position s fails: the error is cached beside the data
CacheDeliverFail(s, e) ==
  /\ s <= Len(gets)
  /\ error' = e
  /\ isLoading' = FALSE
  /\ fetchCur' = After(fetchCur, s)
  /\ gets' = Settle(gets, s)
  /\ UNCHANGED <<job, body, cacheRest>>

CacheNext ==
  \/ CachePoll
  \/ CacheMutate
  \/ \E s \in Slots, b \in Bodies : CacheDeliverOk(s, b)
  \/ \E s \in Slots, e \in FetchErrors : CacheDeliverFail(s, e)

CacheSpec == CacheInit /\ [][CacheNext]_vars

(* ---------------------------------------------------------------------- *)
(* <DownloadsSection job={job}> in the job view: it renders its buttons    *)
(* from the job, and handleDownloadValveSizeReport runs                     *)
(* ---------------------------------------------------------------------- *)

\* the job page at rest in a signed-in session, nothing on the wire
PollerIdle ==
  /\ session = "authenticated"
  /\ backend = "pending"
  /\ error = NoError
  /\ isLoading = FALSE
  /\ gets = << >>
  /\ fetchCur = 0
  /\ fetchRecent = FALSE
  /\ pollTimer = 0
  /\ pollWait = 0
  /\ retryTimers = {}
  /\ isCancelling = FALSE
  /\ cancelError = NoMessage
  /\ cancelPc = "idle"
  /\ post = NoPost
  /\ cancelWait = 0
  /\ retryClicks = 0
  /\ stages = << >>
  /\ overallProgress = -1
  /\ called = "none"
  /\ jobId \in JobIds
  /\ scheduled = 0

\* the variables the downloads actions leave alone
downloadsRest ==
  <<session, backend, job, error, isLoading, gets, fetchCur, fetchRecent, pollTimer,
    pollWait, retryTimers, isCancelling, cancelError, cancelPc, post, cancelWait,
    retryClicks, stages, overallProgress, jobId, scheduled, body, uploadError,
    isUploading, isDragOver, uploads, pushed, file, moreVars>>

DownloadsInit == job \in DownloadJobs /\ PollerIdle /\ OthersIdle

\* the component's return statement
RenderDownloads ==
  /\ downloads = NoDownloads
  /\ downloads' = [pdfButton |-> isDetectedPdfAvailable(job),
                   pdfToggle |-> isDetectedPdfAvailable(job),
                   reportButton |-> IF areValveCountsAvailable(job)
                                    THEN "enabled" ELSE "disabled"]
  /\ called' = "none"
  /\ UNCHANGED <<csvContent, downloadsRest>>

\* handleDownloadValveSizeReport, then downloadValveSizeReport, which hands
\* the file to the browser only `if (link.download !== undefined)`
HandleDownloadValveSizeReport(downloadSupported) ==
  /\ downloads # NoDownloads
  /\ IF job.result # None /\ job.result[1].valve_sizes # None /\ areValveCountsAvailable(job)
     THEN csvContent' = IF downloadSupported
                        THEN downloadValveSizeReport(job.result[1].valve_sizes[1])
                        ELSE csvContent
     ELSE UNCHANGED csvContent
  /\ called' = "handleDownloadValveSizeReport"
  /\ UNCHANGED <<downloads, downloadsRest>>

DownloadsNext ==
  \/ RenderDownloads
  \/ \E downloadSupported \in BOOLEAN : HandleDownloadValveSizeReport(downloadSupported)

DownloadsSpec == DownloadsInit /\ [][DownloadsNext]_vars

(* ---------------------------------------------------------------------- *)
(* <UploadSection onUploadSuccess={handleUploadSuccess}> on the home page: *)
(* files are picked or dropped, uploads are answered or lost, and a        *)
(* returned job navigates to its page.  The file input is disabled while   *)
(* isUploading; the drop zone is not.  Nothing is picked or dropped once   *)
(* the page is being left.                                                 *)
(* ---------------------------------------------------------------------- *)

\* the variables the upload actions leave alone
uploadRest ==
  <<session, backend, job, error, isLoading, gets, fetchCur, fetchRecent, pollTimer,
    pollWait, retryTimers, isCancelling, cancelError, cancelPc, post, cancelWait,
    retryClicks, stages, overallProgress, jobId, scheduled, body, downloads, csvContent,
    moreVars>>

UploadInit == job = NoJob /\ PollerIdle /\ OthersIdle

\* processFile up to its await: setUploadError(null); setIsUploading(true);
\* uploadFile posts the file
processFile ==
  /\ Len(uploads) < MaxUploads
  /\ uploadError' = NoMessage
  /\ isUploading' = TRUE
  /\ uploads' = Append(uploads, [st |-> "sent", job_id |-> "", statusText |-> ""])

\* setUploadError('Please upload a valid PDF file.'); return
rejectFile ==
  /\ uploadError' = <<"Please upload a valid PDF file.">>
  /\ UNCHANGED <<isUploading, uploads>>

\* handleFileUpload with the type check left out
handleFileUploadUnchecked(type) ==
  /\ ~isUploading
  /\ pushed = << >>
  /\ file' = Some([type |-> type])
  /\ processFile
  /\ called' = "handleFileUpload"
  /\ UNCHANGED <<isDragOver, pushed, uploadRest>>

\* onChange of the file input, which is disabled while isUploading
handleFileUpload(type) ==
  /\ ~isUploading
  /\ pushed = << >>
  /\ file' = Some([type |-> type])
  /\ IF ~includes(type, <<"p", "d", "f">>) THEN rejectFile ELSE processFile
  /\ called' = "handleFileUpload"
  /\ UNCHANGED <<isDragOver, pushed, uploadRest>>

handleDragOver ==
  /\ pushed = << >>
  /\ isDragOver' = TRUE
  /\ called' = "none"
  /\ UNCHANGED <<uploadError, isUploading, uploads, pushed, file, uploadRest>>

handleDragLeave ==
  /\ pushed = << >>
  /\ isDragOver' = FALSE
  /\ called' = "none"
  /\ UNCHANGED <<uploadError, isUploading, uploads, pushed, file, uploadRest>>

\* onDrop of the drop zone, with the first of the dropped files
handleDrop(type) ==
  /\ pushed = << >>
  /\ isDragOver' = FALSE
  /\ file' = Some([type |-> type])
  /\ IF ~includes(type, <<"p", "d", "f">>) THEN rejectFile ELSE processFile
  /\ called' = "handleDrop"
  /\ UNCHANGED <<pushed, uploadRest>>

\* the backend answers POST /detect-valves: 200 with the new job, or not ok
ServeUpload(i) ==
  /\ i <= Len(uploads)
  /\ uploads[i].st = "sent"
  /\ \/ \E id \in UploadJobIds :
          uploads' = [uploads EXCEPT ![i] = [st |-> "ok", job_id |-> id, statusText |-> "OK"]]
     \/ \E t \in StatusTexts :
          uploads' = [uploads EXCEPT ![i] = [st |-> "nonok", job_id |-> "", statusText |-> t]]
  /\ called' = "none"
  /\ UNCHANGED <<uploadError, isUploading, isDragOver, pushed, file, uploadRest>>

\* uploadFile resolves: onUploadSuccess(jobResponse), which is
\* router.push(`/${jobResponse.job_id}`), then the finally block
DeliverUploadOk(i) ==
  /\ i <= Len(uploads)
  /\ uploads[i].st = "ok"
  /\ pushed' = Append(pushed, uploads[i].job_id)
  /\ isUploading' = FALSE
  /\ uploads' = Settle(uploads, i)
  /\ called' = "none"
  /\ UNCHANGED <<uploadError, isDragOver, file, uploadRest>>

\* uploadFile throws for a response that is not ok: catch, then finally
DeliverUploadNonOk(i) ==
  /\ i <= Len(uploads)
  /\ uploads[i].st = "nonok"
  /\ uploadError' = uploadMessage(uploads[i].statusText)
  /\ isUploading' = FALSE
  /\ uploads' = Settle(uploads, i)
  /\ called' = "none"
  /\ UNCHANGED <<isDragOver, pushed, file, uploadRest>>

\* fetch() itself rejects: the request, or the 200 response to it, was lost
DeliverUploadNetworkError(i) ==
  /\ i <= Len(uploads)
  /\ uploads[i].st \in {"sent", "ok"}
  /\ uploadError' = <<"Failed to fetch">>
  /\ isUploading' = FALSE
  /\ uploads' = Settle(uploads, i)
  /\ called' = "none"
  /\ UNCHANGED <<isDragOver, pushed, file, uploadRest>>

UploadNext ==
  \/ \E type \in FileTypes : handleFileUpload(type)
  \/ handleDragOver
  \/ handleDragLeave
  \/ \E type \in FileTypes : handleDrop(type)
  \/ \E i \in 1..MaxUploads : ServeUpload(i)
  \/ \E i \in 1..MaxUploads : DeliverUploadOk(i)
  \/ \E i \in 1..MaxUploads : DeliverUploadNonOk(i)
  \/ \E i \in 1..MaxUploads : DeliverUploadNetworkError(i)

UploadSpec == UploadInit /\ [][UploadNext]_vars

(* ---------------------------------------------------------------------- *)
(* The earlier copies of the job page: app/jobs/[slug]/page.tsx as first   *)
(* written (part_005) and the viewer page app/page.tsx, each with its own  *)
(* useJobStatus and getProcessingStages.  Neither reads the session.  The  *)
(* poller is followed while its requests are answered with 200.            *)
(* ---------------------------------------------------------------------- *)

\* refreshInterval of the mounted copy
legacyInterval(v, data) ==
  IF v = "part_005" THEN refreshInterval_part005(data) ELSE refreshInterval_page(data)

\* part_005: processingStages = job ? getProcessingStages(job.status) : [] and
\* overallProgress = calculateOverallProgress(processingStages), both computed
\* on every render; app/page.tsx: processingStages alone
LegacyRendered(v, j) ==
  LET processingStages ==
        IF j = NoJob THEN << >>
        ELSE IF v = "part_005" THEN getProcessingStages_part005(j.status)
        ELSE getProcessingStages_page(j.status)
  IN <<processingStages,
       IF v = "part_005" THEN calculateOverallProgress_part005(processingStages)
       ELSE -1>>

\* the variables the legacy poller leaves alone
legacyRest ==
  <<session, backend, error, fetchRecent, retryTimers, isCancelling, cancelError, cancelPc,
    post, cancelWait, retryClicks, called, jobId, scheduled, otherVars>>

LegacyMounted ==
  /\ variant \in {"part_005", "page.tsx"}
  /\ session = "authenticated"
  /\ backend \in JobStatus
  /\ job = NoJob
  /\ error = NoError
  /\ isLoading = TRUE
  /\ gets = << [st |-> "sent", rc |-> 0] >>
  /\ fetchCur = 1
  /\ fetchRecent = FALSE
  /\ pollTimer = legacyInterval(variant, NoJob)
  /\ pollWait = 0
  /\ retryTimers = {}
  /\ isCancelling = FALSE
  /\ cancelError = NoMessage
  /\ cancelPc = "idle"
  /\ post = NoPost
  /\ cancelWait = 0
  /\ retryClicks = 0
  /\ stages = LegacyRendered(variant, NoJob)[1]
  /\ overallProgress = LegacyRendered(variant, NoJob)[2]
  /\ called = "none"
  /\ jobId \in JobIds
  /\ scheduled = 0
  /\ SectionsIdle
  /\ showDetectedPdf = FALSE
  /\ autoShowDue = FALSE
  /\ CanvasIdle

\* the polling timeout fires: a revalidation with dedupe, which joins the
\* request in flight or starts one
LegacyPollTick ==
  /\ pollTimer # 0
  /\ pollTimer' = 0
  /\ IF fetchCur # 0
     THEN pollWait' = fetchCur /\ UNCHANGED <<gets, fetchCur>>
     ELSE /\ Len(gets) < MaxGets
          /\ gets' = Append(gets, [st |-> "sent", rc |-> 0])
          /\ fetchCur' = NewSlot
          /\ pollWait' = NewSlot
  /\ UNCHANGED <<job, isLoading, stages, overallProgress, legacyRest>>

\* a 200 response arrives and is applied; the page renders again and the
\* polling effect arms its timeout with refreshInterval of the new data
LegacyDeliverGetOk(s) ==
  /\ s <= Len(gets)
  /\ gets[s].st \in JobStatus
  /\ s = fetchCur
  /\ job' = [status |-> gets[s].st]
  /\ isLoading' = FALSE
  /\ fetchCur' = 0
  /\ gets' = Settle(gets, s)
  /\ pollTimer' = legacyInterval(variant, job')
  /\ pollWait' = 0
  /\ stages' = LegacyRendered(variant, job')[1]
  /\ overallProgress' = LegacyRendered(variant, job')[2]
  /\ UNCHANGED legacyRest

\* the job is cancelled through the API while this page polls it
BackendCancel ==
  /\ backend \in {"pending", "processing", "pdf_processed", "counting"}
  /\ backend' = "cancelled"
  /\ UNCHANGED <<session, job, error, isLoading, gets, fetchCur, fetchRecent, pollTimer,
                 pollWait, retryTimers, isCancelling, cancelError, cancelPc, post,
                 cancelWait, retryClicks, stages, overallProgress, called, jobId, scheduled,
                 otherVars>>

LegacyNext ==
  \/ BackendAdvance
  \/ BackendFail
  \/ BackendCancel
  \/ \E s \in Slots : ServeGet(s)
  \/ LegacyPollTick
  \/ \E s \in Slots : LegacyDeliverGetOk(s)

LegacySpec == LegacyMounted /\ [][LegacyNext]_vars

(* ---------------------------------------------------------------------- *)
(* The job view of the current page: the data the cache hands over, the    *)
(* stages rendered from its status, showDetectedPdf with its toggle in     *)
(* DownloadsSection and the auto-show effect.  The session is there and    *)
(* the poller is left out: a response is any job the API can answer with.  *)
(* ---------------------------------------------------------------------- *)

\* a status the JobStatus enum does not list
UnknownStatus == "queued"

\* jobs the cache can hold
ViewJobs ==
  JobsOf(JobStatus \cup {UnknownStatus}, {undefined, "", "/files/detected.pdf"},
         {None}, {undefined}, {undefined, "2025-01-01T00:00:00"})

\* the variables the job view's actions leave alone
viewRest ==
  <<session, backend, error, isLoading, gets, fetchCur, fetchRecent, pollTimer, pollWait,
    retryTimers, isCancelling, cancelError, cancelPc, post, cancelWait, retryClicks,
    jobId, scheduled, sectionVars, variant, canvasVars>>

JobViewInit ==
  /\ job = NoJob
  /\ PollerIdle
  /\ SectionsIdle
  /\ variant = "part_006"
  /\ showDetectedPdf = FALSE
  /\ autoShowDue = TRUE
  /\ CanvasIdle

\* the cache hands the page new data (data that is deeply equal to the data
\* held keeps its reference and renders nothing); the page renders, with
\* <ProcessingStages currentStatus={job.status} />, and [job, ...] has changed
ApplyJob(b) ==
  /\ ~autoShowDue
  /\ b # job
  /\ job' = b
  /\ stages' = getProcessingStages(b.status)
  /\ overallProgress' = calculateOverallProgress(stages')
  /\ autoShowDue' = TRUE
  /\ called' = "none"
  /\ UNCHANGED <<showDetectedPdf, viewRest>>

\* onTogglePdfView={() => setShowDetectedPdf(!showDetectedPdf)}, behind the
\* button DownloadsSection renders when isDetectedPdfAvailable(job)
TogglePdfView ==
  /\ ~autoShowDue
  /\ isDetectedPdfAvailable(job)
  /\ showDetectedPdf' = ~showDetectedPdf
  /\ autoShowDue' = TRUE
  /\ called' = "onTogglePdfView"
  /\ UNCHANGED <<job, stages, overallProgress, viewRest>>

\* useEffect(() => { if (isDetectedPdfAvailable(job) && !showDetectedPdf)
\* setShowDetectedPdf(true) }, [job, showDetectedPdf]): runs after a render
\* that changed a dependency; its own setState changes one again
AutoShowEffect ==
  /\ autoShowDue
  /\ IF isDetectedPdfAvailable(job) /\ ~showDetectedPdf
     THEN showDetectedPdf' = TRUE /\ autoShowDue' = TRUE
     ELSE showDetectedPdf' = showDetectedPdf /\ autoShowDue' = FALSE
  /\ called' = "useEffect"
  /\ UNCHANGED <<job, stages, overallProgress, viewRest>>

JobViewNext ==
  \/ \E b \in ViewJobs : ApplyJob(b)
  \/ TogglePdfView
  \/ AutoShowEffect

JobViewSpec == JobViewInit /\ [][JobViewNext]_vars

(* ---------------------------------------------------------------------- *)
(* The canvas PDF viewer (part_003): loadPDF, renderPage, navigatePage and *)
(* handleZoom.  Scales are in hundredths, the canvas scale in ten-         *)
(* thousandths.  renderPage is a useCallback over pdfState.doc,            *)
(* currentZoomScale and pageRenderCache, and the handlers are made on each *)
(* render, so a handler works with the pdfState of the render it was made  *)
(* in, and so does everything it schedules.                                *)
(* ---------------------------------------------------------------------- *)

BASE_RENDER_SCALE == 50
ZOOM_STEP == 25
MIN_ZOOM_SCALE == 50
MAX_ZOOM_SCALE == 300

\* documents the user can pick, each with numPages pages
Docs == 1..MaxDocs
numPages == MaxPages

Min(a, b) == IF a < b THEN a ELSE b
Max(a, b) == IF a > b THEN a ELSE b

\* the renderPage of the current render: what its closure holds
renderPageNow ==
  [doc |-> pdfState.doc, zoom |-> pdfState.currentZoomScale,
   cache |-> pdfState.pageRenderCache]

\* cacheKey = `${num}-${currentZoomScale.toFixed(2)}`
cacheKey(num, zoom) == <<num, zoom>>

\* the variables the viewer leaves alone
canvasRest ==
  <<pageVars, sectionVars, variant, showDetectedPdf, autoShowDue>>

CanvasInit ==
  /\ job = NoJob
  /\ PollerIdle
  /\ OthersIdle

\* renderPage(num) of the closure c up to its first await; leaves nothing
\* behind `if (!pdfState.doc || !canvasRef.current) return`
startRender(c, num, origin, q) ==
  IF c.doc = 0
  THEN /\ pending' = q
       /\ UNCHANGED <<pdfState, pdfMetadata>>
  ELSE /\ pdfState' = [pdfState EXCEPT !.pageRendering = TRUE, !.pageNum = num]
       /\ pdfMetadata' = [pdfMetadata EXCEPT !.currentPage = num]
       /\ pending' = Append(q, [kind |-> "render", origin |-> origin, c |-> c, num |-> num])

\* handleFileUpload with a PDF file, then loadPDF up to its first await: the
\* state is reset and the canvas cleared
loadPDF(d) ==
  /\ ops < MaxOps
  /\ ops' = ops + 1
  /\ pdfState' = [doc |-> 0, pageNum |-> 1, pageRendering |-> FALSE,
                  currentZoomScale |-> 50, pageRenderCache |-> {}]
  /\ pdfMetadata' = [totalPages |-> 0, currentPage |-> 1]
  /\ canvas' = BlankCanvas
  /\ pending' = Append(pending, [kind |-> "load", origin |-> "loadPDF",
                                 c |-> renderPageNow, num |-> d])
  /\ UNCHANGED canvasRest

\* the document is parsed: setPdfMetadata, setPdfState(prev => ({...prev, doc})),
\* setTimeout(() => renderPage(1), 100)
LoadSucceeds(i) ==
  /\ i <= Len(pending)
  /\ pending[i].kind = "load"
  /\ pdfMetadata' = [totalPages |-> numPages, currentPage |-> 1]
  /\ pdfState' = [pdfState EXCEPT !.doc = pending[i].num]
  /\ pending' = Append(Settle(pending, i),
                       [kind |-> "timer", origin |-> "loadPDF", c |-> pending[i].c, num |-> 1])
  /\ UNCHANGED <<canvas, ops, canvasRest>>

\* getDocument rejects: the catch block
LoadFails(i) ==
  /\ i <= Len(pending)
  /\ pending[i].kind = "load"
  /\ pdfMetadata' = [totalPages |-> 0, currentPage |-> 1]
  /\ pending' = Settle(pending, i)
  /\ UNCHANGED <<pdfState, canvas, ops, canvasRest>>

\* navigatePage
navigatePage(direction) ==
  /\ ops < MaxOps
  /\ ops' = ops + 1
  /\ pdfState.doc # 0
  /\ LET newPageNum == IF direction = "prev"
                       THEN Max(1, pdfState.pageNum - 1)
                       ELSE Min(pdfMetadata.totalPages, pdfState.pageNum + 1)
     IN IF newPageNum # pdfState.pageNum
        THEN startRender(renderPageNow, newPageNum, "navigatePage", pending)
        ELSE UNCHANGED <<pdfState, pdfMetadata, pending>>
  /\ UNCHANGED <<canvas, canvasRest>>

\* handleZoom
handleZoom(direction) ==
  /\ ops < MaxOps
  /\ ops' = ops + 1
  /\ pdfState.doc # 0
  /\ LET newScale == IF direction = "in"
                     THEN Min(MAX_ZOOM_SCALE, pdfState.currentZoomScale + ZOOM_STEP)
                     ELSE Max(MIN_ZOOM_SCALE, pdfState.currentZoomScale - ZOOM_STEP)
     IN IF newScale # pdfState.currentZoomScale
        THEN /\ pdfState' = [pdfState EXCEPT !.currentZoomScale = newScale]
             /\ pending' = Append(pending, [kind |-> "timer", origin |-> "handleZoom",
                                            c |-> renderPageNow, num |-> pdfState.pageNum])
        ELSE UNCHANGED <<pdfState, pending>>
  /\ UNCHANGED <<pdfMetadata, canvas, canvasRest>>

\* a timeout set by loadPDF or handleZoom fires and calls the renderPage it holds
TimerFires(i) ==
  /\ i <= Len(pending)
  /\ pending[i].kind = "timer"
  /\ startRender(pending[i].c, pending[i].num, pending[i].origin, Settle(pending, i))
  /\ UNCHANGED <<canvas, ops, canvasRest>>

\* renderPage after its awaits: a bitmap cached under the key is drawn, or
\* the page is rendered and cached in a copy of the cache the closure holds;
\* getPage rejects for a page the document does not have
RenderDone(i) ==
  /\ i <= Len(pending)
  /\ pending[i].kind = "render"
  /\ LET c == pending[i].c
         num == pending[i].num
         key == cacheKey(num, c.zoom)
         hits == {e \in c.cache : e.key = key}
         drawn == [doc |-> c.doc, page |-> num, scale |-> BASE_RENDER_SCALE * c.zoom]
     IN IF num \notin 1..numPages
        THEN /\ canvas' = canvas
             /\ pdfState' = [pdfState EXCEPT !.pageRendering = FALSE]
        ELSE IF hits # {}
        THEN /\ canvas' = (CHOOSE e \in hits : TRUE).bitmap
             /\ pdfState' = [pdfState EXCEPT !.pageRendering = FALSE]
        ELSE /\ canvas' = drawn
             /\ pdfState' = [pdfState EXCEPT
                               !.pageRendering = FALSE,
                               !.pageRenderCache = c.cache \cup {[key |-> key, bitmap |-> drawn]}]
  /\ pending' = Settle(pending, i)
  /\ UNCHANGED <<pdfMetadata, ops, canvasRest>>

CanvasNext ==
  \/ \E d \in Docs : loadPDF(d)
  \/ \E i \in 1..MaxOps : LoadSucceeds(i)
  \/ \E i \in 1..MaxOps : LoadFails(i)
  \/ \E direction \in {"prev", "next"} : navigatePage(direction)
  \/ \E direction \in {"in", "out"} : handleZoom(direction)
  \/ \E i \in 1..MaxOps : TimerFires(i)
  \/ \E i \in 1..MaxOps : RenderDone(i)

CanvasSpec == CanvasInit /\ [][CanvasNext]_vars

(* ---------------------------------------------------------------------- *)
(* Properties                                                              *)
(* ---------------------------------------------------------------------- *)

TerminalStatuses == {"completed", "failed", "cancelled"}
CancellableStatuses == {"pending", "processing", "pdf_processed", "counting"}

\* this step applies the 200 response of the current request, at position s, to the cache
AppliesResponse(s) ==
  /\ s <= Len(gets)
  /\ gets[s].st \in JobStatus
  /\ gets' = Settle(gets, s)
  /\ s = fetchCur
  /\ fetchCur' = 0
  /\ error' = NoError
  /\ job' = [status |-> gets[s].st]

\* this step puts a new GET /jobs/{id} on the wire
StartsGet == Len(gets') = Len(gets) + 1 /\ gets'[Len(gets')].st = "sent"

\* C1: polling stops exactly on terminal statuses.  A step that applies a
\* successful status response leaves the refresh interval at 0 and no polling
\* timeout pending when the status is completed, failed or cancelled, and
\* leaves a polling timeout of 2000 ms pending for every other status; and no
\* polling timeout is pending while the cached status is terminal.
C1_PollingStopsOnTerminal ==
  [][ /\ (job'.status \in TerminalStatuses => pollTimer' = 0)
      /\ \A s \in Slots :
           AppliesResponse(s) =>
             IF job'.status \in TerminalStatuses
             THEN refreshInterval(job') = 0 /\ pollTimer' = 0
             ELSE refreshInterval(job') = 2000 /\ pollTimer' = 2000 ]_vars

\* a cancelled job has just been fetched and polling has stopped
C1_Witness ==
  /\ job.status = "cancelled"
  /\ error = NoError
  /\ fetchRecent
  /\ pollTimer = 0
  /\ pollWait = 0

\* C2: an invocation of handleCancelJob with no job loaded, or with a cached
\* status outside {pending, processing, pdf_processed, counting}, sends no
\* cancel POST and leaves isCancelling and cancelError as they are; a cancel
\* POST is only ever put on the wire while the cached status is cancellable.
C2_NoCancelOutsideCancellable ==
  [][ /\ (called' = "handleCancelJob" /\ (job = NoJob \/ job.status \notin CancellableStatuses))
           => (post' = post /\ isCancelling' = isCancelling /\ cancelError' = cancelError)
      /\ (post.st = "none" /\ post'.st = "sent")
           => (job # NoJob /\ job.status \in CancellableStatuses) ]_vars

\* handleCancelJob has just been invoked on a completed job: nothing was sent
C2_Witness ==
  /\ called = "handleCancelJob"
  /\ job.status = "completed"
  /\ post = NoPost
  /\ ~isCancelling
  /\ cancelError = NoMessage

\* C3: when the displayed status changes from pending or processing to
\* cancelled, the processing stage is shown cancelled with the progress it had
\* while active (25 or 75), and the detection and counting stages are shown
\* cancelled with progress 0.
C3_CancelHoldsActiveProgress ==
  [][ (/\ stages # << >> /\ stages' # << >>
       /\ job.status \in {"pending", "processing"}
       /\ job'.status = "cancelled")
      => /\ stages[2].status = "active"
         /\ stages'[2].status = "cancelled"
         /\ stages'[2].progress = stages[2].progress
         /\ stages'[3].status = "cancelled" /\ stages'[3].progress = 0
         /\ stages'[4].status = "cancelled" /\ stages'[4].progress = 0 ]_vars

\* C4: when the displayed status changes to cancelled, every stage that was
\* shown completed before the change is still shown completed/100 after it.
C4_CancelKeepsCompletedStages ==
  [][ (/\ stages # << >> /\ stages' # << >>
       /\ job.status # "cancelled"
       /\ job'.status = "cancelled")
      => \A i \in 1..Len(stages) :
           stages[i].status = "completed"
             => (stages'[i].status = "completed" /\ stages'[i].progress = 100) ]_vars

StageRow(s) == [i \in 1..Len(s) |-> <<s[i].id, s[i].status, s[i].progress>>]

\* the lookup table of the specification, one row per status
StageTable(status) ==
  CASE status = "pending" ->
         << <<"upload", "completed", 100>>, <<"processing", "active", 25>>,
            <<"detection", "pending", 0>>, <<"counting", "pending", 0>> >>
    [] status = "processing" ->
         << <<"upload", "completed", 100>>, <<"processing", "active", 75>>,
            <<"detection", "pending", 0>>, <<"counting", "pending", 0>> >>
    [] status = "pdf_processed" ->
         << <<"upload", "completed", 100>>, <<"processing", "completed", 100>>,
            <<"detection", "active", 50>>, <<"counting", "pending", 0>> >>
    [] status = "counting" ->
         << <<"upload", "completed", 100>>, <<"processing", "completed", 100>>,
            <<"detection", "completed", 100>>, <<"counting", "active", 75>> >>
    [] status = "completed" ->
         << <<"upload", "completed", 100>>, <<"processing", "completed", 100>>,
            <<"detection", "completed", 100>>, <<"counting", "completed", 100>> >>
    [] status = "failed" ->
         << <<"upload", "completed", 100>>, <<"processing", "error", 0>>,
            <<"detection", "pending", 0>>, <<"counting", "pending", 0>> >>

\* C5: for pending, processing, pdf_processed, counting, completed and failed
\* the rendered stage list is the row of the specification's table, and the
\* job page's own copy of getProcessingStages returns the same row.
C5_StagesFollowTable ==
  (stages # << >> /\ job.status \in JobStatus \ {"cancelled"})
    => /\ StageRow(stages) = StageTable(job.status)
       /\ StageRow(getProcessingStages_part005(job.status)) = StageTable(job.status)

\* a failed job is displayed: the error sits on the processing stage
C5_Witness ==
  /\ stages # << >>
  /\ job.status = "failed"
  /\ backend = "failed"
  /\ stages[2].status = "error"

RECURSIVE ProgressTotal(_, _)
ProgressTotal(s, n) == IF n = 0 THEN 0 ELSE s[n].progress + ProgressTotal(s, n - 1)

\* C6: the overall progress is the integer nearest to the mean of the stages'
\* progress values, a mean ending in .5 going up; it is 31 for the stages of a
\* pending job and 100 for those of a completed job.
C6_OverallProgressIsRoundedMean ==
  overallProgress # -1 =>
    LET n == Len(stages)
        t == ProgressTotal(stages, n)
    IN /\ 2 * n * overallProgress - n <= 2 * t
       /\ 2 * t < 2 * n * overallProgress + n
       /\ (job.status = "pending" => overallProgress = 31)
       /\ (job.status = "completed" => overallProgress = 100)

\* the overall progress of a pending job's stages has been computed
C6_Witness ==
  /\ job.status = "pending"
  /\ stages = getProcessingStages("pending")
  /\ overallProgress = 31

\* this step hands the 200 response of the cancel POST to handleCancelJob
\* (the loss of that response would set cancelError instead)
CancelPostSucceeds == post.st = "ok" /\ post'.st = "none" /\ cancelError' = NoMessage

\* C7: the step in which the cancel POST succeeds puts a new status request on
\* the wire while isCancelling is still true; isCancelling goes back to false
\* on that path only in the step in which that re-fetch settles; and the
\* cached job only ever changes to the body of a status response.
C7_RefetchAfterCancel ==
  [][ /\ CancelPostSucceeds
           => (isCancelling' /\ StartsGet /\ fetchCur' = Len(gets') /\ cancelWait' = Len(gets'))
      /\ (cancelWait' # 0 => isCancelling')
      /\ (cancelWait # 0 /\ ~isCancelling')
           => (cancelWait <= Len(gets) /\ gets' = Settle(gets, cancelWait) /\ cancelWait' = 0)
      /\ (job' # job)
           => \E s \in 1..Len(gets) : /\ gets[s].st \in JobStatus
                                      /\ gets' = Settle(gets, s)
                                      /\ job' = [status |-> gets[s].st] ]_vars

\* the backend has cancelled the job, the POST has succeeded and the handler
\* awaits its re-fetch with isCancelling still set
C7_Witness ==
  /\ backend = "cancelled"
  /\ cancelPc = "refetching"
  /\ isCancelling
  /\ cancelWait # 0
  /\ cancelWait <= Len(gets)
  /\ post = NoPost
  /\ job.status \in CancellableStatuses

C9_CancelConverges == (backend = "cancelled") ~> [](job.status = "cancelled")

\* the cancelled status is displayed while a superseded poll request that
\* was answered before the cancellation is still on the wire
C9_Witness ==
  /\ backend = "cancelled"
  /\ job.status = "cancelled"
  /\ \E s \in 1..Len(gets) : s # fetchCur /\ gets[s].st \in CancellableStatuses

\* C10 as stated: at most one GET /jobs/{id} is on the wire at any time.
C10_AtMostOneOutstanding == Len(gets) <= 1

\* C10 amended: a step starts a status request while the request SWR holds as
\* current is still in flight only through mutate() (the Retry button, or the
\* re-fetch after a successful cancel POST), never through a poll tick or an
\* error retry; and the cached job only changes to the response of the request
\* that is current, the response of a superseded request being dropped.
C10_OnlyMutateOverlapsAndLatestWins ==
  [][ /\ (StartsGet /\ fetchCur # 0) => (called' = "refetch" \/ CancelPostSucceeds)
      /\ (job' # job)
           => /\ fetchCur # 0
              /\ fetchCur' = 0
              /\ gets' = Settle(gets, fetchCur)
              /\ job' = [status |-> gets[fetchCur].st] ]_vars

\* two status requests are on the wire: a poll request and the re-fetch after
\* the cancel that superseded it
C10_Witness ==
  /\ Len(gets) = 2
  /\ cancelPc = "refetching"
  /\ fetchCur = cancelWait
  /\ fetchCur # 0

(* ---------------------------------------------------------------------- *)
(* C11  The cached job is the last applied response, whole                 *)
(* ---------------------------------------------------------------------- *)

\* C11: after every successful fetch the cached job equals exactly the
\* response applied last -- status, detected_pdf_url, result, error and
\* completed_at are all the response's, none is carried over from the job
\* cached before or merged with it -- and no other step changes the cached job.
C11_JobIsLastResponse ==
  /\ job = body
  /\ job # NoJob =>
       /\ job \in Bodies
       /\ \A f \in {"status", "detected_pdf_url", "result", "error", "completed_at"} :
            job[f] = body[f]

\* the response applied last left detected_pdf_url, result, error and
\* completed_at out, and a later request has failed since
C11_Witness ==
  /\ job \in Bodies
  /\ job.status = "processing"
  /\ job.detected_pdf_url = undefined /\ job.result = None
  /\ job.error = undefined /\ job.completed_at = undefined
  /\ Len(gets) = 1 /\ fetchCur = 0 /\ error # NoError

(* ---------------------------------------------------------------------- *)
(* C12  A null or empty job id means no polling                            *)
(* ---------------------------------------------------------------------- *)

\* C12: when the job id passed to useJobStatus is null or empty no status
\* request is ever issued and no error is produced (nor any job); when it is
\* non-empty the first request is on the wire as soon as the hook has mounted,
\* and every later request that is neither an error retry nor the re-fetch
\* after a cancel is started by the polling timeout, armed with 2000 ms.
C12_NullIdDoesNotPoll ==
  /\ jobId # NoJobId => gets = << [st |-> "sent", rc |-> 0] >> /\ fetchCur = 1
  /\ [](jobId = NoJobId =>
          gets = << >> /\ error = NoError /\ job = NoJob /\ retryTimers = {} /\ ~isLoading)
  /\ [][(StartsGet /\ retryTimers' = retryTimers /\ ~CancelPostSucceeds) =>
          jobId # NoJobId /\ pollTimer = 2000 /\ pollWait' = Len(gets')]_vars

\* the hook has mounted with a null id in a signed-in session: the polling
\* timeout is armed and nothing is on the wire
C12_Witness ==
  /\ jobId = NoJobId
  /\ session = "authenticated"
  /\ pollTimer = interval
  /\ gets = << >>

(* ---------------------------------------------------------------------- *)
(* C13  Non-OK status responses become errors with the right message       *)
(* ---------------------------------------------------------------------- *)

\* `HTTP <status>: <statusText>` spelled out for a response
HttpText(res) == <<"H", "T", "T", "P", " ">> \o res.status \o <<":", " ">> \o res.statusText

LoadingCase == isLoading /\ job = NoJob
ErrorCase == ~LoadingCase /\ error # NoError
NoJobCase == ~LoadingCase /\ error = NoError /\ job = NoJob
JobCase == ~LoadingCase /\ error = NoError /\ job # NoJob

\* C14: for an authenticated user the page shows exactly one of four views,
\* chosen from (isLoading, error, job): loading when isLoading and no job is
\* cached, else error when an error is set (a cached job or not), else no-job,
\* else the job view, the only one that renders the stages; a click on Retry
\* happens in the error view and starts a new status request, which becomes the
\* current one; and a step that applies a 200 response leaves the page in the
\* job view.
C14_FourViews ==
  /\ [](session = "authenticated" =>
          /\ View(session, isLoading, error, job) =
               (CASE LoadingCase -> "loading"
                  [] ErrorCase -> "error"
                  [] NoJobCase -> "no-job"
                  [] JobCase -> "job")
          /\ (stages # << >>) = JobCase)
  /\ [][called' = "refetch" =>
          /\ session = "authenticated" /\ ErrorCase
          /\ StartsGet /\ fetchCur' = Len(gets')]_vars
  /\ [][\A s \in Slots :
          (AppliesResponse(s) /\ session = "authenticated") =>
            View(session', isLoading', error', job') = "job" /\ stages' # << >>]_vars

\* after a click on Retry the page is back in the job view, the error gone
C14_Witness ==
  /\ retryClicks >= 1
  /\ session = "authenticated"
  /\ View(session, isLoading, error, job) = "job"
  /\ fetchCur = 0 /\ gets = << >>

(* ---------------------------------------------------------------------- *)
(* C15  Automatic retries after a failed status fetch                      *)
(* ---------------------------------------------------------------------- *)

\* C15 as stated, its spacing: every automatic retry is scheduled a fixed
\* 5000 ms after the failure.
C15_FixedRetryDelay == scheduled \in {0, 5000}

\* this step starts the request of the error-retry timeout with retry count n
RetryFires(n) ==
  /\ n \in retryTimers
  /\ retryTimers' = retryTimers \ {n}
  /\ StartsGet
  /\ gets'[Len(gets')].rc = n

\* C15 amended: a failed status fetch is followed by at most 3 automatic
\* retries: the failure of the request with retry count n - 1 schedules retry
\* n only for n <= 3, after k * 5000 ms with 2^(n-1) <= k <= 3 * 2^(n-1) - 1
\* (exponential backoff with jitter, not a fixed 5000 ms); no retry is scheduled
\* otherwise; and while the error is cached a request is started only by such
\* a retry or by the Retry button.
C15_BoundedBackoffRetries ==
  /\ [](\A i \in 1..Len(gets) : gets[i].rc <= 3)
  /\ [][scheduled' # 0 =>
          \E s \in 1..Len(gets) :
            /\ gets' = Settle(gets, s) /\ error' # NoError /\ job' = job
            /\ LET n == gets[s].rc + 1 IN
                 /\ n <= 3 /\ n \in retryTimers'
                 /\ \E k \in pow2(n - 1)..(3 * pow2(n - 1) - 1) : scheduled' = k * 5000]_vars
  /\ [][(retryTimers' \ retryTimers # {}) => scheduled' # 0]_vars
  /\ [][(StartsGet /\ error # NoError) =>
          called' = "refetch" \/ \E n \in 1..3 : RetryFires(n)]_vars

\* the second retry has failed and the third is scheduled 55 s later
C15_Witness ==
  /\ scheduled = 11 * errorRetryInterval
  /\ 3 \in retryTimers
  /\ error # NoError

(* ---------------------------------------------------------------------- *)
(* C16  Text of the valve-size report                                      *)
(* ---------------------------------------------------------------------- *)

RECURSIVE SplitLines(_)
\* the lines of a text: its pieces between the "\n" pieces
SplitLines(text) ==
  IF \A i \in 1..Len(text) : text[i] # "\n" THEN <<text>>
  ELSE LET k == CHOOSE i \in 1..Len(text) :
                  text[i] = "\n" /\ \A j \in 1..(i - 1) : text[j] # "\n"
       IN <<SubSeq(text, 1, k - 1)>> \o SplitLines(SubSeq(text, k + 1, Len(text)))

RECURSIVE DigitsValue(_)
\* the number a sequence of digit characters denotes
DigitsValue(d) ==
  IF d = << >> THEN 0
  ELSE 10 * DigitsValue(SubSeq(d, 1, Len(d) - 1))
       + (CHOOSE v \in 0..9 : digitChars[v + 1] = d[Len(d)])

\* C16: the report generated for a valve_sizes list of n entries has exactly
\* n + 1 lines separated by single "\n" with none at the end: the header
\* size_inches,valve_name,count, then for each entry, in input order, its
\* size_inches, valve_name and count (in decimal) separated by "," and nothing
\* else -- no quotes, no escaping; the list of the one entry 2", Gate, 3 gives
\* size_inches,valve_name,count\n2",Gate,3.
C16_ReportText ==
  csvContent # << >> =>
    LET valveSizes == job.result[1].valve_sizes[1]
        lines == SplitLines(csvContent)
    IN /\ Len(lines) = Len(valveSizes) + 1
       /\ csvContent[Len(csvContent)] # "\n"
       /\ lines[1] = <<"size_inches", ",", "valve_name", ",", "count">>
       /\ \A i \in 1..Len(valveSizes) :
            LET line == lines[i + 1]
                digits == SubSeq(line, 5, Len(line))
            IN /\ Len(line) >= 5
               /\ SubSeq(line, 1, 4) =
                    <<valveSizes[i].size_inches, ",", valveSizes[i].valve_name, ",">>
               /\ \A k \in 1..Len(digits) : \E v \in 0..9 : digitChars[v + 1] = digits[k]
               /\ DigitsValue(digits) = valveSizes[i].count
               /\ Len(digits) = 1 \/ digits[1] # "0"
       /\ valveSizes = << [size_inches |-> "2\"", valve_name |-> "Gate", count |-> 3] >> =>
            csvContent = <<"size_inches", ",", "valve_name", ",", "count", "\n",
                           "2\"", ",", "Gate", ",", "3">>

\* the report of the one-entry list 2", Gate, 3 has been generated
C16_Witness ==
  csvContent = <<"size_inches", ",", "valve_name", ",", "count", "\n", "2\"", ",", "Gate", ",", "3">>

(* ---------------------------------------------------------------------- *)
(* C17  When the detected PDF is offered                                   *)
(* ---------------------------------------------------------------------- *)

\* C17: the Download Detected PDF button and the PDF view toggle are
\* rendered if and only if the job's status is pdf_processed, counting or
\* completed and detected_pdf_url is neither missing nor empty; for pending,
\* processing, failed and cancelled they are not rendered whatever the url.
C17_DetectedPdfOffered ==
  downloads # NoDownloads =>
    LET offered == /\ job.status \in {"pdf_processed", "counting", "completed"}
                   /\ job.detected_pdf_url \notin {undefined, ""}
    IN /\ downloads.pdfButton = offered
       /\ downloads.pdfToggle = offered
       /\ job.status \in {"pending", "processing", "failed", "cancelled"} =>
            ~downloads.pdfButton /\ ~downloads.pdfToggle

\* rendered for a cancelled job that carries a detected_pdf_url: neither the
\* button nor the toggle is there
C17_Witness ==
  /\ downloads # NoDownloads
  /\ job.status = "cancelled"
  /\ job.detected_pdf_url = "/files/detected.pdf"
  /\ ~downloads.pdfButton /\ ~downloads.pdfToggle

(* ---------------------------------------------------------------------- *)
(* C18  When the valve-size report is generated                            *)
(* ---------------------------------------------------------------------- *)

\* C18: a report file exists only if the job's status is completed and its
\* result carries valve_counts and valve_sizes; for every other status the
\* report button is rendered disabled and handleDownloadValveSizeReport
\* produces no file, whatever the result holds.
C18_ReportOnlyWhenCompleted ==
  /\ csvContent # << >> =>
       /\ job.status = "completed"
       /\ job.result # None
       /\ job.result[1].valve_counts # None
       /\ job.result[1].valve_sizes # None
  /\ (downloads # NoDownloads /\ job.status # "completed") =>
       downloads.reportButton = "disabled" /\ csvContent = << >>

\* the handler has run for a cancelled job whose result carries counts and
\* sizes: the button is disabled and there is no file
C18_Witness ==
  /\ called = "handleDownloadValveSizeReport"
  /\ job.status = "cancelled"
  /\ job.result # None
  /\ job.result[1].valve_counts # None /\ job.result[1].valve_sizes # None
  /\ downloads.reportButton = "disabled"
  /\ csvContent = << >>

(* ---------------------------------------------------------------------- *)
(* C19  Files that are not PDFs are rejected before any upload             *)
(* ---------------------------------------------------------------------- *)

\* the types among FileTypes whose text contains "pdf"
PdfTypes ==
  { <<"a", "p", "p", "l", "i", "c", "a", "t", "i", "o", "n", "/", "p", "d", "f">>,
    <<"a", "p", "p", "l", "i", "c", "a", "t", "i", "o", "n", "/", "x", "-", "p", "d", "f">> }

\* C19: when the file picker or the drop zone hands UploadSection a file
\* whose type does not contain "pdf", the handler sets uploadError to
\* "Please upload a valid PDF file.", posts nothing, leaves isUploading as it
\* was and does not call onUploadSuccess; a file whose type does contain "pdf"
\* is posted.
C19_NonPdfRejected ==
  [][(called' \in {"handleFileUpload", "handleDrop"}) =>
       IF file'[1].type \notin PdfTypes
       THEN /\ uploadError' = <<"Please upload a valid PDF file.">>
            /\ uploads' = uploads
            /\ isUploading' = isUploading
            /\ pushed' = pushed
       ELSE Len(uploads') = Len(uploads) + 1]_vars

\* a file of empty type was dropped while an upload is on the wire: the
\* message is set, the upload goes on, isUploading is still true
C19_Witness ==
  /\ called = "handleDrop"
  /\ file = Some([type |-> << >>])
  /\ uploadError = <<"Please upload a valid PDF file.">>
  /\ isUploading
  /\ Len(uploads) = 1
  /\ pushed = << >>

(* ---------------------------------------------------------------------- *)
(* C20  Failed and successful uploads                                      *)
(* ---------------------------------------------------------------------- *)

\* this step settles the upload at position i
SettlesUpload(i) == i <= Len(uploads) /\ uploads' = Settle(uploads, i)

\* C20: when POST /detect-valves fails, uploadError becomes the error's
\* message -- "Upload failed: <statusText>" for a response that is not ok --
\* onUploadSuccess is not called (no navigation) and isUploading is false
\* again; every upload that starts clears uploadError; and an upload that
\* succeeds calls onUploadSuccess exactly once, with the job the response
\* carried, sets no error, and isUploading is false again.
C20_UploadFailureAndSuccess ==
  /\ [][\A i \in 1..MaxUploads :
          SettlesUpload(i) =>
            /\ isUploading' = FALSE
            /\ CASE uploads[i].st = "nonok" ->
                       /\ uploadError' = <<"Upload failed: ", uploads[i].statusText>>
                       /\ pushed' = pushed
                  [] uploads[i].st = "sent" ->
                       /\ uploadError' = <<"Failed to fetch">>
                       /\ pushed' = pushed
                  [] uploads[i].st = "ok" ->
                       \/ /\ pushed' = Append(pushed, uploads[i].job_id)
                          /\ uploadError' = uploadError
                       \/ /\ pushed' = pushed
                          /\ uploadError' = <<"Failed to fetch">>]_vars
  /\ [][Len(uploads') > Len(uploads) => uploadError' = NoMessage /\ isUploading']_vars
  /\ [][pushed' # pushed => Len(pushed') = Len(pushed) + 1 /\ Len(uploads') < Len(uploads)]_vars

\* an upload was answered 400 Bad Request: the message is shown, nothing is
\* on the wire, no navigation
C20_Witness ==
  /\ uploadError = <<"Upload failed: ", "Bad Request">>
  /\ ~isUploading
  /\ uploads = << >>
  /\ pushed = << >>

(* ---------------------------------------------------------------------- *)
(* C21  The earlier copies of the poller and of the stage mapping          *)
(* ---------------------------------------------------------------------- *)

SharedStatuses == {"pending", "processing", "pdf_processed", "counting", "completed", "failed"}

\* C21: in every copy of the job page a fetched job with status cancelled
\* stops polling (no polling timeout is pending and no status request is on
\* the wire while the cached status is cancelled), and the stages the copy
\* renders for a status it shares with ProcessingStages.getProcessingStages
\* are the ones that function returns.
C21_CopiesTreatCancelled ==
  /\ job.status = "cancelled" => pollTimer = 0 /\ gets = << >>
  /\ (job # NoJob /\ job.status \in SharedStatuses) => stages = getProcessingStages(job.status)

(* ---------------------------------------------------------------------- *)
(* C22  One upload at a time                                               *)
(* ---------------------------------------------------------------------- *)

\* C22: at most one POST /detect-valves is in flight at any time and
\* isUploading is true exactly while an upload is in flight, whatever the
\* picker selections and drops, a drop made during an upload included.
C22_OneUploadInFlight ==
  /\ Len(uploads) <= 1
  /\ isUploading = (uploads # << >>)

(* ---------------------------------------------------------------------- *)
(* C23  The PDF toggle and the auto-show effect                            *)
(* ---------------------------------------------------------------------- *)

\* C23: with the detected PDF available and shown, the toggle sets
\* showDetectedPdf to false, and once the toggle has set it to false the
\* next thing that happens does not set it back to true unless it is the
\* user's toggle again: the auto-show effect leaves the user's choice alone.
C23_ToggleStaysOff ==
  /\ [][(called' = "onTogglePdfView" /\ showDetectedPdf) => ~showDetectedPdf']_vars
  /\ [][(called = "onTogglePdfView" /\ ~showDetectedPdf /\ showDetectedPdf')
          => called' = "onTogglePdfView"]_vars

(* ---------------------------------------------------------------------- *)
(* C24  cancelError belongs to the cancel POST of the latest attempt       *)
(* ---------------------------------------------------------------------- *)

\* a cancel attempt starts: the handler passes its guard and posts
StartsCancel == called' = "handleCancelJob" /\ post.st = "none" /\ post'.st = "sent"

\* the cancel POST fails in the handler's eyes: a response that is not ok, or
\* fetch itself rejecting
CancelPostFails ==
  /\ cancelPc = "posting"
  /\ cancelPc' = "idle"
  /\ post.st \in {"sent", "ok", "nonok"}
  /\ post' = NoPost

\* C24: cancelError is reset to null when a cancel attempt starts and stays
\* null while the attempt runs; it becomes a message only in the step in which
\* the attempt's POST fails; and once the POST has succeeded the attempt ends
\* with cancelError still null, also when the re-fetch that follows fails.
C24_CancelErrorIsPostFailure ==
  /\ cancelError = NoMessage
  /\ [](cancelPc # "idle" => cancelError = NoMessage)
  /\ [][StartsCancel => cancelError' = NoMessage]_vars
  /\ [][(cancelError' # cancelError /\ cancelError' # NoMessage) => CancelPostFails]_vars
  /\ [][(cancelPc = "refetching" /\ cancelPc' = "idle") => cancelError' = NoMessage]_vars

\* a cancel POST succeeded, the re-fetch after it failed and left the cached
\* job as it was, and no message is shown
C24_Witness ==
  /\ backend = "cancelled"
  /\ cancelPc = "idle"
  /\ ~isCancelling
  /\ cancelError = NoMessage
  /\ error # NoError
  /\ job # NoJob
  /\ job.status # "cancelled"

(* ---------------------------------------------------------------------- *)
(* C25  isCancelling spans the cancel attempt; one cancel POST at a time   *)
(* ---------------------------------------------------------------------- *)

\* the re-fetch the handler awaits settles, with data or with an error
RefetchSettles ==
  /\ cancelPc = "refetching"
  /\ cancelWait # 0
  /\ cancelWait' = 0
  /\ gets' = Settle(gets, cancelWait)

\* C25: isCancelling is true exactly while the handler's cancel POST or the
\* re-fetch it awaits after a successful POST is outstanding: it becomes true
\* only when an attempt starts and false only when the POST fails or the
\* re-fetch settles; and a click that passes the handler's guard and sends
\* a cancel POST happens only when none is in flight and no attempt is
\* running, so at most one is in flight.
C25_CancellingSpansAttempt ==
  /\ ~isCancelling
  /\ [](isCancelling <=> (post.st # "none" \/ cancelWait # 0))
  /\ [](~(post.st # "none" /\ cancelWait # 0))
  /\ [](cancelWait # 0 => cancelWait <= Len(gets))
  /\ [][(~isCancelling /\ isCancelling') => StartsCancel]_vars
  /\ [][(isCancelling /\ ~isCancelling') => (CancelPostFails \/ RefetchSettles)]_vars
  /\ [][(called' = "handleCancelJob" /\ job # NoJob /\ isJobCancellable(job))
          => (post.st = "none" /\ ~isCancelling /\ cancelWait = 0 /\ post'.st = "sent")]_vars

\* the POST has been answered 200 and the re-fetch is on the wire: the
\* attempt is still running and isCancelling is still true
C25_Witness ==
  /\ isCancelling
  /\ post.st = "none"
  /\ cancelWait # 0
  /\ gets[cancelWait].st = "cancelled"

(* ---------------------------------------------------------------------- *)
(* C26  Shape of the stage list                                            *)
(* ---------------------------------------------------------------------- *)

StageIds == <<"upload", "processing", "detection", "counting">>

\* C26: whatever status the job view renders -- one of the seven of JobStatus
\* or one the enum does not list -- the stage list has exactly the four
\* stages upload, processing, detection, counting in that order, the upload
\* stage is completed with progress 100, every progress is within 0..100, at
\* most one stage is active, and the completed stages are the first ones of
\* the list.
C26_StageListShape ==
  job # NoJob =>
    /\ stages = getProcessingStages(job.status)
    /\ Len(stages) = 4
    /\ \A i \in 1..4 : stages[i].id = StageIds[i]
    /\ stages[1].status = "completed" /\ stages[1].progress = 100
    /\ \A i \in 1..4 : stages[i].progress \in 0..100
    /\ Cardinality({i \in 1..4 : stages[i].status = "active"}) <= 1
    /\ \A i \in 2..4 : stages[i].status = "completed" => stages[i - 1].status = "completed"

\* a status outside the enum has been rendered
C26_Witness ==
  /\ job # NoJob
  /\ job.status = UnknownStatus
  /\ Len(stages) = 4
  /\ \A i \in 2..4 : stages[i].status = "pending"

(* ---------------------------------------------------------------------- *)
(* C27  The progress bar along the pipeline                                *)
(* ---------------------------------------------------------------------- *)

PipelineOrder == <<"pending", "processing", "pdf_processed", "counting", "completed">>

\* place of a status in the pipeline, 0 for a status outside it
PipelinePlace(status) ==
  IF \E i \in 1..5 : PipelineOrder[i] = status
  THEN CHOOSE i \in 1..5 : PipelineOrder[i] = status
  ELSE 0

BarAlongPipeline == <<31, 44, 63, 94, 100>>

\* C27: the overall progress shown for pending, processing, pdf_processed,
\* counting, completed is 31, 44, 63, 94, 100, strictly increasing along the
\* pipeline; from one rendering of the job view to the next, both for a
\* status of the pipeline, the bar does not move backwards and moves forwards
\* when the status has changed; and the bar is at 100 only for completed.
C27_BarOnlyAdvances ==
  /\ \A i \in 1..4 : BarAlongPipeline[i] < BarAlongPipeline[i + 1]
  /\ []((overallProgress # -1 /\ PipelinePlace(job.status) # 0)
          => overallProgress = BarAlongPipeline[PipelinePlace(job.status)])
  /\ [](overallProgress = 100 => job.status = "completed")
  /\ [][(/\ overallProgress # -1 /\ overallProgress' # -1
          /\ PipelinePlace(job.status) # 0 /\ PipelinePlace(job'.status) # 0)
          => /\ overallProgress' >= overallProgress
             /\ PipelinePlace(job'.status) >= PipelinePlace(job.status)
             /\ job'.status # job.status => overallProgress' > overallProgress]_vars

\* the bar stands at 63 for pdf_processed (a mean of 62.5) while the backend
\* has moved on to counting
C27_Witness ==
  /\ job.status = "pdf_processed"
  /\ overallProgress = 63
  /\ backend = "counting"

(* ---------------------------------------------------------------------- *)
(* C28  calculateOverallProgress and the empty stage list                  *)
(* ---------------------------------------------------------------------- *)

\* C28: on the job page that computes the overall progress itself, the stage
\* list handed to calculateOverallProgress is never empty and the overall
\* progress is an integer within 0..100 in every state, the states without a
\* job included.
C28_ProgressOfNonEmptyList ==
  variant = "part_005" => (Len(stages) > 0 /\ overallProgress \in 0..100)

(* ---------------------------------------------------------------------- *)
(* C29  Requests and the session                                           *)
(* ---------------------------------------------------------------------- *)

\* C29: while the session is loading or there is none, no GET /jobs/{job_id}
\* is on the wire, no polling timeout is armed, no stages are rendered and no
\* cancel is running: the page shows the loading indicator or the sign-in
\* page and nothing of the job.
C29_NothingWithoutSession ==
  session # "authenticated" =>
    /\ gets = << >>
    /\ pollTimer = 0
    /\ stages = << >>
    /\ post.st = "none"
    /\ ~isCancelling

(* ---------------------------------------------------------------------- *)
(* C30  What the canvas shows after a scheduled renderPage                 *)
(* ---------------------------------------------------------------------- *)

\* the renderPage scheduled by loadPDF or handleZoom finishes, nothing else
\* of the viewer being under way
ScheduledRenderFinishes ==
  /\ Len(pending) = 1
  /\ pending[1].kind \in {"timer", "render"}
  /\ pending[1].origin \in {"loadPDF", "handleZoom"}
  /\ pending' = << >>

\* C30: once the renderPage scheduled by handleZoom after a change of the
\* zoom scale, or by loadPDF after a successful load, has finished, the
\* canvas shows page pageNum of the current document at BASE_RENDER_SCALE
\* times the current currentZoomScale.
C30_CanvasShowsCurrentState ==
  [][ScheduledRenderFinishes =>
       canvas' = [doc |-> pdfState'.doc, page |-> pdfState'.pageNum,
                  scale |-> BASE_RENDER_SCALE * pdfState'.currentZoomScale]]_vars

====
